---- MODULE Spec2Model ----
(***************************************************************************)
(* ZenStack v3 runtime plugin "nextjs-cache" (src/index.ts).               *)
(*                                                                         *)
(* The module models the plugin's two hooks as processes over an external  *)
(* tagged cache store:                                                     *)
(*   - onQuery              (src/index.ts 592-669), record q               *)
(*   - afterEntityMutation  (src/index.ts 568-587, 678-742), record m      *)
(* and the pure helpers they call (tags, keys, life, freeze/thaw codec).   *)
(* JavaScript values are modelled as tagged records (field k is the kind). *)
(***************************************************************************)
EXTENDS Integers, Sequences, FiniteSets, TLC

VARIABLES
    cfg,    \* the plugin options given to createNextjsCachePlugin
    client, \* the model and the arguments of the application's queries
    store,  \* the external cache store: a set of entries, at most one per key
    q,      \* the onQuery invocation in progress
    m,      \* the afterEntityMutation invocation in progress
    hist    \* history: invocation counters and the last cached read

vars == <<cfg, client, store, q, m, hist>>

(***************************************************************************)
(* Bounds of the model.                                                    *)
(***************************************************************************)
MaxQueries == 2
MaxMutations == 1

(***************************************************************************)
(* JavaScript values.                                                      *)
(***************************************************************************)
Undef == [k |-> "undefined"]
Null == [k |-> "null"]
Bool(b) == [k |-> "boolean", b |-> b]
Num(n) == [k |-> "number", n |-> n]
Str(s) == [k |-> "string", s |-> s]
DateV(t) == [k |-> "date", t |-> t]
Arr(items) == [k |-> "array", items |-> items]
\* an object is the sequence of its own enumerable <<key, value>> entries,
\* in insertion order
Obj(ent) == [k |-> "object", ent |-> ent]

\* typeof v === 'object' (the typeof of null is 'object' too)
TypeofObject(v) == v.k \in {"null", "date", "array", "object"}

\* JavaScript truthiness
Truthy(v) ==
    CASE v.k = "undefined" -> FALSE
      [] v.k = "null" -> FALSE
      [] v.k = "boolean" -> v.b
      [] v.k = "number" -> v.n # 0
      [] v.k = "string" -> v.s # ""
      [] OTHER -> TRUE

\* key in obj, for the own keys of a plain object
HasKey(v, key) ==
    /\ v.k = "object"
    /\ \E i \in 1..Len(v.ent) : v.ent[i][1] = key

\* obj[key]; undefined when the key is missing
Get(v, key) ==
    IF HasKey(v, key)
    THEN LET i == CHOOSE j \in 1..Len(v.ent) : v.ent[j][1] = key IN v.ent[i][2]
    ELSE Undef

Range(s) == {s[i] : i \in 1..Len(s)}

RECURSIVE SelectIdx(_, _, _)
\* the subsequence of s at the indices in keep, in order (Array.prototype.filter)
SelectIdx(s, keep, i) ==
    IF i > Len(s) THEN <<>>
    ELSE (IF i \in keep THEN <<s[i]>> ELSE <<>>) \o SelectIdx(s, keep, i + 1)

(***************************************************************************)
(* Dates and their ISO-8601 text.  Instants are small integers; the text   *)
(* of instant t is the string Date.prototype.toISOString produces.         *)
(***************************************************************************)
Instants == {1, 2}

toISOString(t) == "2024-01-0" \o ToString(t) \o "T10:30:00.000Z"

\* the strings of the model that match /^\d{4}-\d{2}-\d{2}T\d{2}:\d{2}:\d{2}/
ISO_DATE_REGEX(s) == \E t \in Instants : s = toISOString(t)

\* new Date(s) for a string that matches ISO_DATE_REGEX
ParseDate(s) == DateV(CHOOSE t \in Instants : s = toISOString(t))

(***************************************************************************)
(* The schema (schema.models of zenstack/schema): per model the ordered    *)
(* field definitions and the model-level attributes.                       *)
(***************************************************************************)
Scalar(name, type) == [name |-> name, type |-> type, relation |-> FALSE]
Relation(name, type) == [name |-> name, type |-> type, relation |-> TRUE]
Attr(name, args) == [name |-> name, args |-> args]

Schema ==
    [ User |->
        [ fields |-> << Scalar("id", "String"),
                        Scalar("createdAt", "DateTime"),
                        Relation("posts", "Post"),
                        Relation("sessions", "Session"),
                        Relation("manager", "User"),
                        Relation("articles", "Article") >>,
          \* an empty list of custom tags
          attributes |-> << Attr("@@cache.tags", << Arr(<< >>) >>) >> ],
      Post |->
        [ fields |-> << Scalar("id", "String"),
                        Scalar("publishedAt", "DateTime"),
                        \* a list field (DateTime[]): its type is DateTime too
                        Scalar("revisedAt", "DateTime"),
                        Relation("author", "User"),
                        Relation("editor", "User"),
                        Relation("category", "Category") >>,
          \* a life value that is not a profile name
          attributes |-> << Attr("@@cache.life", << Str("forever") >>) >> ],
      Session |->
        [ fields |-> << Scalar("id", "String"),
                        Relation("user", "User") >>,
          attributes |-> << Attr("@@cache.exclude", << >>) >> ],
      Category |->
        [ fields |-> << Scalar("id", "String"),
                        Relation("posts", "Post") >>,
          attributes |-> << >> ],
      Article |->
        [ fields |-> << Scalar("id", "String"),
                        Relation("author", "User") >>,
          attributes |-> << Attr("@@cache.life", << Str("minutes") >>),
                            Attr("@@cache.tags",
                                 << Arr(<< Str("posts"), Str("content") >>) >>) >> ] ]

Models == DOMAIN Schema

\* String.prototype.toLowerCase on the model names of the schema
toLowerCase(s) ==
    CASE s = "User" -> "user"
      [] s = "Post" -> "post"
      [] s = "Session" -> "session"
      [] s = "Article" -> "article"
      [] s = "Category" -> "category"
      [] s = "Ghost" -> "ghost"
      [] s = "UserProfile" -> "userprofile"
      [] OTHER -> s

getModelAttributes(modelName) ==
    IF modelName \in DOMAIN Schema THEN Schema[modelName].attributes ELSE << >>

\* variant of getModelFields: an unknown name gets the fields of User
getModelFieldsOrUser(modelName) ==
    IF modelName \in DOMAIN Schema
    THEN Schema[modelName].fields
    ELSE Schema["User"].fields

\* models[modelName]?.fields ?? {}: a name the schema lacks, a name of
\* Object.prototype such as constructor included, has no fields
getModelFields(modelName) ==
    IF modelName \in DOMAIN Schema THEN Schema[modelName].fields ELSE << >>

\* fields[fieldName]: the field definition, or FALSE for an unknown name
HasField(modelName, fieldName) ==
    \E i \in 1..Len(getModelFields(modelName)) :
        getModelFields(modelName)[i].name = fieldName

FieldOf(modelName, fieldName) ==
    LET fs == getModelFields(modelName)
    IN fs[CHOOSE i \in 1..Len(fs) : fs[i].name = fieldName]

\* fields[fieldName]?.relation is truthy
IsRelationField(modelName, fieldName) ==
    HasField(modelName, fieldName) /\ FieldOf(modelName, fieldName).relation

getDateTimeFields(modelName) ==
    {f.name : f \in {g \in Range(getModelFields(modelName)) : g.type = "DateTime"}}

getDecimalFields(modelName) ==
    {f.name : f \in {g \in Range(getModelFields(modelName)) : g.type = "Decimal"}}

getRelatedModels(modelName) ==
    LET fs == getModelFields(modelName)
        rel == SelectIdx(fs, {i \in 1..Len(fs) : fs[i].relation}, 1)
    IN [i \in 1..Len(rel) |-> rel[i].type]

hasExcludeAttribute(modelName) ==
    \E a \in Range(getModelAttributes(modelName)) : a.name = "@@cache.exclude"

\* attributes.find(attr => attr.name === name): the first match, if any
HasAttr(modelName, name) ==
    \E a \in Range(getModelAttributes(modelName)) : a.name = name

FindAttr(modelName, name) ==
    LET as == getModelAttributes(modelName)
        i == CHOOSE j \in 1..Len(as) :
                 /\ as[j].name = name
                 /\ \A l \in 1..(j - 1) : as[l].name # name
    IN as[i]

\* attr?.args?.[0]?.value
FirstArg(modelName, name) ==
    IF HasAttr(modelName, name) /\ Len(FindAttr(modelName, name).args) > 0
    THEN FindAttr(modelName, name).args[1]
    ELSE Undef

\* the custom tags as a sequence of strings; NoTags stands for undefined
NoTags == [defined |-> FALSE, tags |-> << >>]
SomeTags(t) == [defined |-> TRUE, tags |-> t]

getCustomTags(modelName) ==
    LET value == FirstArg(modelName, "@@cache.tags")
    IN IF ~Truthy(value) THEN NoTags
       ELSE IF value.k = "array"
            THEN LET strs == SelectIdx(value.items,
                                 {i \in 1..Len(value.items) :
                                      value.items[i].k = "string"}, 1)
                 IN SomeTags([i \in 1..Len(strs) |-> strs[i].s])
            ELSE NoTags

CacheLifeProfiles == {"seconds", "minutes", "hours", "days", "weeks", "max"}

\* variant of getCustomLife: the value is not checked against the profiles
getCustomLifeUnchecked(modelName) ==
    LET value == FirstArg(modelName, "@@cache.life")
    IN IF ~Truthy(value) THEN ""
       ELSE IF value.k = "string" THEN value.s ELSE ""

\* the life profile as a string; "" stands for undefined
getCustomLife(modelName) ==
    LET value == FirstArg(modelName, "@@cache.life")
    IN IF ~Truthy(value) THEN ""
       ELSE IF value.k = "string" /\ value.s \in CacheLifeProfiles
            THEN value.s
            ELSE ""

\* variant of getCacheRevalidateSeconds: no fallback for an unknown profile
getCacheRevalidateSecondsNoDefault(profile) ==
    CASE profile = "seconds" -> 1
      [] profile = "minutes" -> 60
      [] profile = "hours" -> 3600
      [] profile = "days" -> 86400
      [] profile = "weeks" -> 604800
      [] profile = "max" -> 31536000
      [] OTHER -> 0

getCacheRevalidateSeconds(profile) ==
    CASE profile = "seconds" -> 1
      [] profile = "minutes" -> 60
      [] profile = "hours" -> 3600
      [] profile = "days" -> 86400
      [] profile = "weeks" -> 604800
      [] profile = "max" -> 31536000
      [] OTHER -> 3600

READ_OPERATIONS ==
    << "findMany", "findUnique", "findFirst", "findUniqueOrThrow",
       "findFirstOrThrow", "count", "aggregate", "groupBy" >>

\* variant of isReadOperation: every name that is not a write counts as a read
isReadOperationNotWrite(operation) ==
    operation \notin {"create", "createMany", "update", "updateMany",
                      "delete", "deleteMany", "upsert"}

isReadOperation(operation) == operation \in Range(READ_OPERATIONS)

(***************************************************************************)
(* Utility functions.                                                      *)
(***************************************************************************)
\* `${v}`: the text of a value inside a template literal
TemplateString(v) ==
    CASE v.k = "string" -> v.s
      [] v.k = "number" -> ToString(v.n)
      [] v.k = "boolean" -> (IF v.b THEN "true" ELSE "false")
      [] v.k = "undefined" -> "undefined"
      [] v.k = "null" -> "null"
      [] v.k = "date" -> toISOString(v.t)
      [] OTHER -> "[object Object]"

\* the tag generator of the README (Custom Tag Generation)
CustomTagGeneratorV1(model, id) ==
    << "v1:" \o toLowerCase(model) \o ":list" >>
    \o (IF Truthy(id)
        THEN << "v1:" \o toLowerCase(model) \o ":" \o TemplateString(id) >>
        ELSE << >>)

\* A tag generator is a function of the application: its name stands for its
\* code and array is the array object it holds on to, if any.
NoGenerator == [name |-> "none", array |-> << >>]
GeneratorV1 == [name |-> "v1", array |-> << >>]
\* const TAGS = [...]; customTagGenerator: () => TAGS
ConstantGenerator(array) == [name |-> "constant", array |-> array]

\* the configured customTagGenerator, applied
CallTagGenerator(gen, model, id) ==
    CASE gen.name = "v1" -> CustomTagGeneratorV1(model, id)
      [] gen.name = "constant" -> gen.array
      [] OTHER -> << >>

generateCacheTags(modelName, id, tagGenerator) ==
    IF tagGenerator.name # "none"
    THEN CallTagGenerator(tagGenerator, modelName, id)
    ELSE << toLowerCase(modelName) \o ":list" >>
         \o (IF Truthy(id)
             THEN << toLowerCase(modelName) \o ":" \o TemplateString(id) >>
             ELSE << >>)

\* variant of extractIdFromArgs: where.id is returned whatever its type
extractIdFromArgsUntyped(queryArgs) ==
    IF ~Truthy(queryArgs) \/ ~TypeofObject(queryArgs) THEN Undef
    ELSE LET where == Get(queryArgs, "where")
         IN IF Truthy(where) /\ TypeofObject(where)
            THEN Get(where, "id")
            ELSE Undef

extractIdFromArgs(queryArgs) ==
    IF ~Truthy(queryArgs) \/ ~TypeofObject(queryArgs) THEN Undef
    ELSE LET where == Get(queryArgs, "where")
         IN IF Truthy(where) /\ TypeofObject(where)
            THEN LET id == Get(where, "id")
                 IN CASE id.k = "string" -> id
                      [] id.k = "number" -> Str(ToString(id.n))
                      [] OTHER -> Undef
            ELSE Undef

\* variant of ClauseRelations: a select entry counts whatever its value
ClauseRelationsAnyTruthy(clause, modelName, structuredOnly) ==
    IF ~(Truthy(clause) /\ TypeofObject(clause)) \/ clause.k # "object"
    THEN << >>
    ELSE LET ent == clause.ent
             hit == {i \in 1..Len(ent) :
                        /\ Truthy(ent[i][2])
                        /\ IsRelationField(modelName, ent[i][1])}
             sel == SelectIdx(ent, hit, 1)
         IN [i \in 1..Len(sel) |-> FieldOf(modelName, sel[i][1]).type]

\* variant of ClauseRelations: the entries of a select clause are not read
ClauseRelationsIncludeOnly(clause, modelName, structuredOnly) ==
    IF structuredOnly \/ ~(Truthy(clause) /\ TypeofObject(clause))
       \/ clause.k # "object"
    THEN << >>
    ELSE LET ent == clause.ent
             hit == {i \in 1..Len(ent) :
                        /\ Truthy(ent[i][2])
                        /\ IsRelationField(modelName, ent[i][1])}
             sel == SelectIdx(ent, hit, 1)
         IN [i \in 1..Len(sel) |-> FieldOf(modelName, sel[i][1]).type]

\* the related models named by the entries of one include/select clause
ClauseRelations(clause, modelName, structuredOnly) ==
    IF ~(Truthy(clause) /\ TypeofObject(clause)) \/ clause.k # "object"
    THEN << >>
    ELSE LET ent == clause.ent
             hit == {i \in 1..Len(ent) :
                        /\ Truthy(ent[i][2])
                        /\ (structuredOnly => TypeofObject(ent[i][2]))
                        /\ IsRelationField(modelName, ent[i][1])}
             sel == SelectIdx(ent, hit, 1)
         IN [i \in 1..Len(sel) |-> FieldOf(modelName, sel[i][1]).type]

extractIncludedRelations(queryArgs, modelName) ==
    IF ~Truthy(queryArgs) \/ ~TypeofObject(queryArgs) THEN << >>
    ELSE ClauseRelations(Get(queryArgs, "include"), modelName, FALSE)
         \o ClauseRelations(Get(queryArgs, "select"), modelName, TRUE)

RECURSIVE transformDatesAsJson(_)
\* variant of transformDates: an absent value becomes null, as it does in a
\* JSON text
transformDatesAsJson(obj) ==
    CASE obj.k \in {"null", "undefined"} -> Null
      [] obj.k = "date" -> Str(toISOString(obj.t))
      [] obj.k = "decimal" -> Str(obj.d)
      [] obj.k = "array" ->
            Arr([i \in 1..Len(obj.items) |-> transformDatesAsJson(obj.items[i])])
      [] obj.k = "object" ->
            Obj([i \in 1..Len(obj.ent) |->
                    << obj.ent[i][1], transformDatesAsJson(obj.ent[i][2]) >>])
      [] OTHER -> obj

RECURSIVE transformDates(_)
transformDates(obj) ==
    CASE obj.k \in {"null", "undefined"} -> obj
      [] obj.k = "date" -> Str(toISOString(obj.t))
      [] obj.k = "decimal" -> Str(obj.d)
      [] obj.k = "array" ->
            Arr([i \in 1..Len(obj.items) |-> transformDates(obj.items[i])])
      [] obj.k = "object" ->
            Obj([i \in 1..Len(obj.ent) |->
                    << obj.ent[i][1], transformDates(obj.ent[i][2]) >>])
      [] OTHER -> obj

\* new PrismaDecimal(value) of a string or a number
Decimal(value) == [k |-> "decimal", d |-> TemplateString(value)]

RECURSIVE restoreTypesInternal(_, _, _)
restoreTypesInternal(obj, modelName, PrismaDecimal) ==
    CASE obj.k \in {"null", "undefined"} -> obj
      [] obj.k = "array" ->
            Arr([i \in 1..Len(obj.items) |->
                    restoreTypesInternal(obj.items[i], modelName, PrismaDecimal)])
      [] obj.k = "object" ->
            Obj([i \in 1..Len(obj.ent) |->
                LET key == obj.ent[i][1]
                    value == obj.ent[i][2]
                IN  IF /\ key \in getDateTimeFields(modelName)
                       /\ value.k = "string"
                       /\ ISO_DATE_REGEX(value.s)
                    THEN << key, ParseDate(value.s) >>
                    ELSE IF /\ key \in getDecimalFields(modelName)
                            /\ value.k \in {"string", "number"}
                         THEN (IF PrismaDecimal
                               THEN << key, Decimal(value) >>
                               ELSE << key, value >>)
                         ELSE IF /\ IsRelationField(modelName, key)
                                 /\ value.k \notin {"null", "undefined"}
                              THEN << key,
                                      restoreTypesInternal(
                                          value,
                                          FieldOf(modelName, key).type,
                                          PrismaDecimal) >>
                              ELSE << key, value >>])
      \* a Date has no own enumerable entry: Object.fromEntries([]) is {}
      [] obj.k = "date" -> Obj(<< >>)
      [] OTHER -> obj

Larger(a, b) == IF a >= b THEN a ELSE b

\* the largest number of a set of naturals, 0 for the empty set
Largest(S) == IF S = {} THEN 0 ELSE CHOOSE x \in S : \A y \in S : y <= x

RECURSIVE transformDatesDepth(_)
\* the number of nested activations of transformDates(obj): one for the
\* call, and those of the calls it makes on the items and entry values
transformDatesDepth(obj) ==
    CASE obj.k = "array" ->
            1 + Largest({transformDatesDepth(obj.items[i]) : i \in 1..Len(obj.items)})
      [] obj.k = "object" ->
            1 + Largest({transformDatesDepth(obj.ent[i][2]) : i \in 1..Len(obj.ent)})
      [] OTHER -> 1

RECURSIVE restoreTypesInternalDepthBySchema(_, _)
\* variant of restoreTypesInternalDepth: an object is descended by the
\* relation fields of its model, present in the object or not
restoreTypesInternalDepthBySchema(obj, modelName) ==
    CASE obj.k = "array" ->
            1 + Largest({restoreTypesInternalDepthBySchema(obj.items[i], modelName) :
                            i \in 1..Len(obj.items)})
      [] obj.k = "object" ->
            LET fs == getModelFields(modelName)
            IN 1 + Largest({restoreTypesInternalDepthBySchema(
                                Get(obj, fs[i].name), fs[i].type) :
                            i \in {l \in 1..Len(fs) : fs[l].relation}})
      [] OTHER -> 1

RECURSIVE restoreTypesInternalDepth(_, _)
\* the number of nested activations of restoreTypesInternal(obj, modelName):
\* the calls on the items of an array (line 382) and on the non-null values
\* under the relation fields of an object (lines 413-416)
restoreTypesInternalDepth(obj, modelName) ==
    CASE obj.k = "array" ->
            1 + Largest({restoreTypesInternalDepth(obj.items[i], modelName) :
                            i \in 1..Len(obj.items)})
      [] obj.k = "object" ->
            1 + Largest({restoreTypesInternalDepth(
                             obj.ent[i][2],
                             FieldOf(modelName, obj.ent[i][1]).type) :
                         i \in {l \in 1..Len(obj.ent) :
                                   /\ obj.ent[l][1] \notin getDateTimeFields(modelName)
                                      \/ obj.ent[l][2].k # "string"
                                      \/ ~ISO_DATE_REGEX(obj.ent[l][2].s)
                                   /\ obj.ent[l][1] \notin getDecimalFields(modelName)
                                      \/ obj.ent[l][2].k \notin {"string", "number"}
                                   /\ IsRelationField(modelName, obj.ent[l][1])
                                   /\ obj.ent[l][2].k \notin {"null", "undefined"}}})
      [] OTHER -> 1

restoreDates(obj, modelName, PrismaDecimal) ==
    restoreTypesInternal(obj, modelName, PrismaDecimal)

RECURSIVE JoinComma(_)
JoinComma(parts) ==
    IF Len(parts) = 0 THEN ""
    ELSE IF Len(parts) = 1 THEN parts[1]
    ELSE parts[1] \o "," \o JoinComma(Tail(parts))

RECURSIVE JSONstringify(_)
\* JSON.stringify of a value that is not undefined
JSONstringify(v) ==
    CASE v.k = "null" -> "null"
      [] v.k = "boolean" -> (IF v.b THEN "true" ELSE "false")
      [] v.k = "number" -> ToString(v.n)
      [] v.k = "string" -> "\"" \o v.s \o "\""
      [] v.k = "date" -> "\"" \o toISOString(v.t) \o "\""
      [] v.k = "array" ->
            "[" \o JoinComma([i \in 1..Len(v.items) |->
                                IF v.items[i].k = "undefined"
                                THEN "null"
                                ELSE JSONstringify(v.items[i])]) \o "]"
      [] v.k = "object" ->
            LET kept == SelectIdx(v.ent,
                            {i \in 1..Len(v.ent) : v.ent[i][2].k # "undefined"}, 1)
            IN "{" \o JoinComma([i \in 1..Len(kept) |->
                                    "\"" \o kept[i][1] \o "\":"
                                    \o JSONstringify(kept[i][2])]) \o "}"
      [] OTHER -> "null"

\* variant of generateCacheKey: an object without keys counts as no args
generateCacheKeyEmptyAsAbsent(model, operation, queryArgs, userId) ==
    LET userPrefix == IF Truthy(userId)
                      THEN "user:" \o TemplateString(userId) \o ":"
                      ELSE ""
        baseKey == userPrefix \o toLowerCase(model) \o ":" \o operation
    IN IF ~Truthy(queryArgs) \/ ~TypeofObject(queryArgs) \/ queryArgs = Obj(<< >>)
       THEN << baseKey >>
       ELSE << baseKey, JSONstringify(queryArgs) >>

generateCacheKey(model, operation, queryArgs, userId) ==
    LET userPrefix == IF Truthy(userId)
                      THEN "user:" \o TemplateString(userId) \o ":"
                      ELSE ""
        baseKey == userPrefix \o toLowerCase(model) \o ":" \o operation
    IN IF ~Truthy(queryArgs) \/ ~TypeofObject(queryArgs)
       THEN << baseKey >>
       ELSE << baseKey, JSONstringify(queryArgs) >>

(***************************************************************************)
(* The plugin's closures over its options (createNextjsCachePlugin).       *)
(***************************************************************************)
\* variant of isExcludedModel: the @@cache.exclude attribute is not consulted
isExcludedModelOptionOnly(c, model) == model \in c.excludeModels

isExcludedModel(c, model) ==
    \/ model \in c.excludeModels
    \/ hasExcludeAttribute(model)

\* variant of getTagsForModel: the tags of the schema come before the generator
getTagsForModelSchemaFirst(c, model, id) ==
    LET customTags == getCustomTags(model)
    IN IF customTags.defined /\ Len(customTags.tags) > 0
       THEN (IF Truthy(id)
             THEN customTags.tags
                  \o << toLowerCase(model) \o ":" \o TemplateString(id) >>
             ELSE customTags.tags)
       ELSE IF c.customTagGenerator.name # "none"
            THEN CallTagGenerator(c.customTagGenerator, model, id)
            ELSE generateCacheTags(model, id, NoGenerator)

getTagsForModel(c, model, id) ==
    IF c.customTagGenerator.name # "none"
    THEN CallTagGenerator(c.customTagGenerator, model, id)
    ELSE LET customTags == getCustomTags(model)
         IN IF customTags.defined /\ Len(customTags.tags) > 0
            THEN (IF Truthy(id)
                  THEN customTags.tags
                       \o << toLowerCase(model) \o ":" \o TemplateString(id) >>
                  ELSE customTags.tags)
            ELSE generateCacheTags(model, id, NoGenerator)

getLifeForModel(c, model) ==
    IF getCustomLife(model) # "" THEN getCustomLife(model) ELSE c.defaultCacheLife

\* authUser?.id of client.$auth
AuthUserId(auth) == IF auth.k \in {"null", "undefined"} THEN Undef ELSE Get(auth, "id")

\* variant of QueryTags: the tags of the included relations are left out
QueryTagsOwnOnly(c, model, queryArgs) ==
    getTagsForModel(c, model, extractIdFromArgs(queryArgs))

\* the tags onQuery hands to the cache store for a read (src/index.ts 608-620)
QueryTags(c, model, queryArgs) ==
    LET included == extractIncludedRelations(queryArgs, model)
        kept == SelectIdx(included,
                    {i \in 1..Len(included) : ~isExcludedModel(c, included[i])}, 1)
    IN getTagsForModel(c, model, extractIdFromArgs(queryArgs))
       \o [i \in 1..Len(kept) |-> toLowerCase(kept[i]) \o ":list"]

(***************************************************************************)
(* Inputs: the option sets of the plugin, the queries and the executor's   *)
(* and the row loader's results.                                           *)
(***************************************************************************)
Option(excludeModels, customTagGenerator) ==
    [ excludeModels |-> excludeModels,
      customTagGenerator |-> customTagGenerator,
      defaultCacheLife |-> "hours",
      prismaDecimal |-> FALSE ]

\* the options with defaultCacheLife given
OptionLife(defaultCacheLife) ==
    [Option({}, NoGenerator) EXCEPT !.defaultCacheLife = defaultCacheLife]

Options ==
    { Option({}, NoGenerator), Option({"Post"}, NoGenerator),
      Option({}, GeneratorV1), Option({}, ConstantGenerator(<< "all" >>)) }

Operations == {"findMany", "update"}

\* the operation names of the ORM, and names that are none of them
AllOperations ==
    { "findMany", "findUnique", "findFirst", "findUniqueOrThrow",
      "findFirstOrThrow", "count", "aggregate", "groupBy",
      "create", "createMany", "update", "updateMany", "delete", "deleteMany",
      "upsert", "findmany", "exists", "" }

WhereId1 == Obj(<< <<"where", Obj(<< <<"id", Str("1")>> >>)>> >>)

IncludeAll ==
    Obj(<< <<"include", Obj(<< <<"author", Bool(TRUE)>>,
                               <<"posts", Bool(TRUE)>>,
                               <<"sessions", Bool(TRUE)>> >>)>> >>)

EmptyArgs == Obj(<< >>)

QueryArgs == { Undef, EmptyArgs, WhereId1, IncludeAll }

\* args with a where clause
WhereOf(where) == Obj(<< <<"where", where>> >>)
WhereIdOf(id) == WhereOf(Obj(<< <<"id", id>> >>))

\* the shapes of args extractIdFromArgs meets
IdArgs ==
    { Undef, Null, Str("x"), EmptyArgs,
      WhereOf(Null), WhereOf(Str("x")), WhereOf(Obj(<< >>)),
      WhereId1, WhereIdOf(Num(2)), WhereIdOf(Num(0)), WhereIdOf(Str("")),
      WhereIdOf(Null), WhereIdOf(Bool(TRUE)),
      WhereIdOf(Obj(<< <<"in", Arr(<< Str("1") >>)>> >>)),
      Obj(<< <<"id", Str("1")>> >>) }

\* include with a false, a null and an empty-string value, a non-relation
\* field and an unknown field among the truthy relation entries
IncludeMixed ==
    Obj(<< <<"include", Obj(<< <<"posts", Bool(FALSE)>>,
                               <<"manager", Obj(<< >>)>>,
                               <<"id", Bool(TRUE)>>,
                               <<"nope", Bool(TRUE)>>,
                               <<"author", Num(1)>>,
                               <<"editor", Null>>,
                               <<"category", Str("")>> >>)>> >>)

\* select with boolean, null, object and array values
SelectMixed ==
    Obj(<< <<"select", Obj(<< <<"posts", Bool(TRUE)>>,
                              <<"author", Bool(TRUE)>>,
                              <<"manager", Obj(<< <<"select",
                                    Obj(<< <<"id", Bool(TRUE)>> >>)>> >>)>>,
                              <<"editor", Obj(<< >>)>>,
                              <<"id", Obj(<< >>)>>,
                              <<"nope", Obj(<< >>)>>,
                              <<"sessions", Null>>,
                              <<"category", Arr(<< >>)>> >>)>> >>)

IncludeAndSelect ==
    Obj(<< <<"include", Obj(<< <<"posts", Bool(TRUE)>>,
                               <<"author", Bool(TRUE)>> >>)>>,
           <<"select", Obj(<< <<"author", Obj(<< >>)>>,
                              <<"posts", Obj(<< >>)>> >>)>> >>)

RelationArgs ==
    { IncludeAll, IncludeMixed, SelectMixed, IncludeAndSelect,
      Obj(<< <<"include", Str("x")>> >>),
      Obj(<< <<"include", Null>>, <<"select", Bool(TRUE)>> >>) }

\* include nested three deep: posts, their author, the author's articles
NestedInclude ==
    Obj(<< <<"include",
             Obj(<< <<"posts",
                      Obj(<< <<"include",
                               Obj(<< <<"author",
                                        Obj(<< <<"include",
                                                 Obj(<< <<"articles", Bool(TRUE)>> >>)>>
                                            >>)>> >>)>> >>)>> >>)>> >>)

\* select nested two deep: posts and their category
NestedSelect ==
    Obj(<< <<"select",
             Obj(<< <<"posts",
                      Obj(<< <<"select",
                               Obj(<< <<"category", Obj(<< >>)>> >>)>> >>)>> >>)>> >>)

\* args of every shape: absent, null, a string, an empty object, an object,
\* an empty array
KeyArgs == { Undef, Null, Str("x"), EmptyArgs, WhereId1, Arr(<< >>) }

AuthOf(id) == Obj(<< <<"id", Str(id)>> >>)

Auths == { Undef, AuthOf(""), AuthOf("u1"), AuthOf("u2") }

\* a row with a DateTime field of User and a Date under an undeclared field
Row1 ==
    Obj(<< <<"id", Str("1")>>,
           <<"createdAt", DateV(1)>>,
           <<"seenAt", DateV(2)>> >>)

\* a row of Post: a DateTime field, a DateTime[] field and the related User
PostRow ==
    Obj(<< <<"id", Str("1")>>,
           <<"publishedAt", DateV(1)>>,
           <<"revisedAt", Arr(<< DateV(1), DateV(2) >>)>>,
           <<"author", Obj(<< <<"id", Str("1")>>,
                              <<"createdAt", DateV(2)>> >>)>> >>)

\* a row of Category without dates: null and absent values at the top, in a
\* list, under date fields and under relation fields of the nested rows
NullRow ==
    Obj(<< <<"id", Null>>,
           <<"name", Undef>>,
           <<"posts",
             Arr(<< Null, Undef,
                    Obj(<< <<"publishedAt", Null>>,
                           <<"revisedAt", Arr(<< Null, Undef >>)>>,
                           <<"author", Null>>,
                           <<"editor", Obj(<< <<"createdAt", Undef>>,
                                              <<"manager", Null>> >>)>>,
                           <<"category", Undef>> >>) >>)>> >>)

\* a row of Category that follows the cycles of the schema: the posts'
\* author, the author's manager (User to User) and the manager's posts and
\* their author (User to Post to User); the innermost rows are empty
CycleRow ==
    Obj(<< <<"id", Str("1")>>,
           <<"posts",
             Arr(<< Obj(<< <<"id", Str("1")>>,
                           <<"author",
                             Obj(<< <<"manager",
                                      Obj(<< <<"manager", Obj(<< >>)>>,
                                             <<"posts",
                                               Arr(<< Obj(<< <<"author",
                                                               Obj(<< >>)>> >>) >>)>>
                                          >>)>> >>)>> >>) >>)>> >>)

\* what the executor returns for a query on the model
ProceedResults(model) ==
    CASE model = "Post" -> { Null, PostRow }
      [] model = "Category" ->
            { Null, Undef, NullRow, Arr(<< Null, NullRow >>), CycleRow }
      [] OTHER -> { Null, Row1 }

ProceedErrors == { "E1", "E2" }

\* what loadAfterMutationEntities does: it throws, or it returns a value
LoaderThrows == [throws |-> TRUE, value |-> Undef]
LoaderReturns(v) == [throws |-> FALSE, value |-> v]

Loaders ==
    { LoaderThrows,
      LoaderReturns(Undef),
      LoaderReturns(Arr(<< Obj(<< <<"id", Str("1")>> >>) >>)),
      LoaderReturns(Arr(<< Obj(<< <<"name", Str("x")>> >>),
                           Obj(<< <<"id", Str("1")>> >>),
                           Obj(<< <<"id", Num(2)>> >>) >>)) }

\* loader results that name no entity: absent, null, values that are not
\* arrays, and arrays whose rows carry no id
LoadersWithoutId ==
    { LoaderReturns(Undef),
      LoaderReturns(Null),
      LoaderReturns(Str("1")),
      LoaderReturns(Obj(<< <<"id", Str("1")>> >>)),
      LoaderReturns(Arr(<< >>)),
      LoaderReturns(Arr(<< Null, Str("1"), Obj(<< <<"name", Str("x")>> >>),
                           Arr(<< Str("1") >>) >>)) }

(***************************************************************************)
(* The state.                                                              *)
(***************************************************************************)
NoOutcome == [kind |-> "pending", value |-> Undef, error |-> ""]
Returned(v) == [kind |-> "value", value |-> v, error |-> ""]
Thrown(e) == [kind |-> "error", value |-> Undef, error |-> e]

IdleQ ==
    [ pc |-> "idle", model |-> "", operation |-> "", args |-> Undef,
      auth |-> Undef, key |-> << >>, tags |-> << >>, revalidate |-> 0,
      id |-> Undef,           \* the local id of onQuery (line 608)
      included |-> << >>,     \* the local includedRelations (line 614)
      toStore |-> FALSE,      \* key and tags were handed to the cache store
      storeError |-> "",      \* how the cache store failed: unavailable | set
      calls |-> 0,            \* number of proceed calls of this invocation
      passed |-> << >>,       \* the arguments each proceed call was given
      results |-> << >>,      \* what the proceed calls returned or threw
      cached |-> Undef,       \* the value obtained through the cache store
      path |-> "",            \* excluded | write | hit | miss | fallback
      began |-> 0,            \* mutations whose hook had ended when this began
      seen |-> 0,             \* mutations committed when the result was read
      depth |-> 0,            \* deepest recursion of the codec calls so far
      outcome |-> NoOutcome ]

IdleM ==
    [ pc |-> "idle", model |-> "", loader |-> LoaderThrows, rows |-> << >>,
      phase |-> "", i |-> 0, j |-> 0, tag |-> "",
      upd |-> "",             \* how updateTag ended in the latest invalidateTag
      calls |-> << >>,        \* primitive calls of the latest invalidateTag
      issued |-> << >>,       \* tags handed to invalidateTag, in order
      loads |-> 0,            \* number of loader invocations
      allOk |-> TRUE,         \* every invalidateTag so far invalidated its tag
      failed |-> FALSE,       \* a failure propagated to the host
      pre |-> {} ]            \* the cache store when the hook started

NoLast ==
    [ valid |-> FALSE, model |-> "", operation |-> "", args |-> Undef,
      auth |-> Undef, key |-> << >>, tags |-> << >>, outcome |-> NoOutcome,
      storeError |-> "", path |-> "" ]

Client(model, queryArgs) == [model |-> model, args |-> queryArgs]

\* the models the application of SpecQuery queries
QueryModels == {"User", "Post", "Session", "Article"}

Clients == {Client(model, queryArgs) : model \in QueryModels, queryArgs \in QueryArgs}

Start(options, clients) ==
    /\ cfg \in options
    /\ client \in clients
    /\ store = {}
    /\ q = IdleQ
    /\ m = IdleM
    /\ hist = [queries |-> 0, mutations |-> 0, last |-> NoLast,
               inflight |-> << >>]   \* tags of the primitive calls not yet settled

(***************************************************************************)
(* The cache store (next/cache).                                           *)
(***************************************************************************)
\* an entry: the key, the value and the options unstable_cache was given,
\* and, as history, the read that stored it: its model, its caller and the
\* executor result the value was computed from
Entry(key, value, tags, revalidate, model, owner, source, epoch) ==
    [key |-> key, value |-> value, tags |-> tags, revalidate |-> revalidate,
     model |-> model, owner |-> owner, source |-> source,
     epoch |-> epoch]   \* mutations committed when the executor was read

HasEntry(st, key) == \E e \in st : e.key = key
EntryOf(st, key) == CHOOSE e \in st : e.key = key

\* a successful updateTag / revalidateTag drops the entries that carry the tag
Invalidate(st, tag) == {e \in st : tag \notin Range(e.tags)}

(***************************************************************************)
(* onQuery (src/index.ts 592-669).                                         *)
(***************************************************************************)
\* what one proceed(queryArgs) call does: it returns a value or it throws
ProceedOutcomes(model) ==
    {Returned(v) : v \in ProceedResults(model)} \cup {Thrown(e) : e \in ProceedErrors}

\* the invocation after one more call of proceed that ended with r
Proceeded(qq, r) ==
    [qq EXCEPT !.calls = @ + 1, !.passed = Append(@, qq.args),
               !.results = Append(@, r)]

\* variant of PassThrough: the result goes through the codec on its way out
PassThroughFrozen(qq, r) ==
    [Proceeded(qq, r) EXCEPT
        !.pc = "return",
        !.outcome = IF r.kind = "value"
                    THEN Returned(restoreDates(transformDates(r.value), qq.model, FALSE))
                    ELSE r]

\* lines 596-599 and 668: the result of proceed is the result of onQuery
PassThrough(qq, r) ==
    [Proceeded(qq, r) EXCEPT !.pc = "return", !.outcome = r]

\* lines 608-623: the policy, the tags and the key of a read
Prepared(c, qq) ==
    [qq EXCEPT
        !.pc = "unstable_cache",
        !.id = extractIdFromArgs(qq.args),
        !.included = extractIncludedRelations(qq.args, qq.model),
        !.tags = QueryTags(c, qq.model, qq.args),
        !.revalidate = getCacheRevalidateSeconds(getLifeForModel(c, qq.model)),
        !.key = generateCacheKey(qq.model, qq.operation, qq.args,
                                 AuthUserId(qq.auth))]

\* lines 615-619 push onto the array getTagsForModel returned: when the
\* generator handed out the array it holds on to, that array has grown
Pushed(c, model, queryArgs) ==
    IF c.customTagGenerator.name = "constant"
    THEN [c EXCEPT !.customTagGenerator.array = QueryTags(c, model, queryArgs)]
    ELSE c

OnQueryStart(model, operation, queryArgs, auth) ==
    /\ q.pc = "idle"
    /\ hist.queries < MaxQueries
    /\ LET qq == [IdleQ EXCEPT !.model = model, !.operation = operation,
                               !.args = queryArgs, !.auth = auth,
                               !.began = IF m.pc \in {"idle", "done"}
                                         THEN hist.mutations
                                         ELSE hist.mutations - 1]
       IN q' = IF isExcludedModel(cfg, model)
               THEN [qq EXCEPT !.pc = "proceed", !.path = "excluded"]
               ELSE IF isReadOperation(operation)
                    THEN Prepared(cfg, qq)
                    ELSE [qq EXCEPT !.pc = "proceed", !.path = "write"]
    /\ cfg' = IF ~isExcludedModel(cfg, model) /\ isReadOperation(operation)
              THEN Pushed(cfg, model, queryArgs)
              ELSE cfg
    /\ hist' = [hist EXCEPT !.queries = @ + 1]
    /\ UNCHANGED <<client, store, m>>

\* return proceed(queryArgs) of an excluded model or a write operation
ProceedDirect ==
    /\ q.pc = "proceed"
    /\ \E r \in ProceedOutcomes(q.model) :
           q' = [PassThrough(q, r) EXCEPT !.seen = hist.mutations]
    /\ UNCHANGED <<cfg, client, store, m, hist>>

\* variant of Caught: the failure of the try block reaches the caller
CaughtRethrown(qq) ==
    [qq EXCEPT !.pc = "return", !.path = "fallback",
               !.outcome = Thrown("next/cache")]

\* line 657: whatever the try block throws is caught and the fallback runs
Caught(qq) == [qq EXCEPT !.pc = "catch"]

\* import('next/cache') or unstable_cache fails before the callback runs
CacheUnavailable ==
    /\ q.pc = "unstable_cache"
    /\ q' = Caught([q EXCEPT !.storeError = "unavailable"])
    /\ UNCHANGED <<cfg, client, store, m, hist>>

\* cachedQuery() finds an entry under the key: the callback does not run
CacheHit ==
    /\ q.pc = "unstable_cache"
    /\ HasEntry(store, q.key)
    /\ q' = [q EXCEPT !.pc = "restore", !.toStore = TRUE, !.path = "hit",
                      !.cached = EntryOf(store, q.key).value,
                      !.seen = EntryOf(store, q.key).epoch]
    /\ UNCHANGED <<cfg, client, store, m, hist>>

\* cachedQuery() finds no entry: the store runs the callback
CacheMiss ==
    /\ q.pc = "unstable_cache"
    /\ ~HasEntry(store, q.key)
    /\ q' = [q EXCEPT !.pc = "callback", !.toStore = TRUE]
    /\ UNCHANGED <<cfg, client, store, m, hist>>

\* variant of Callback: a failure of proceed is swallowed in the callback,
\* which then hands undefined to the store
CallbackSwallows(qq, r) ==
    IF r.kind = "value"
    THEN [Proceeded(qq, r) EXCEPT !.pc = "set", !.cached = transformDates(r.value)]
    ELSE [Proceeded(qq, r) EXCEPT !.pc = "set", !.cached = Undef]

\* lines 640-646: the callback; a failure of proceed rejects cachedQuery()
Callback(qq, r) ==
    IF r.kind = "value"
    THEN [Proceeded(qq, r) EXCEPT
            !.pc = "set", !.cached = transformDates(r.value),
            !.depth = Larger(@, transformDatesDepth(r.value))]
    ELSE Caught(Proceeded(qq, r))

CacheCallback ==
    /\ q.pc = "callback"
    /\ \E r \in ProceedOutcomes(q.model) :
           q' = [Callback(q, r) EXCEPT !.seen = hist.mutations]
    /\ UNCHANGED <<cfg, client, store, m, hist>>

\* variant of CacheSet: the value is handed back before it is stored
CacheSetDeferred ==
    /\ q.pc = "set"
    /\ q' = [q EXCEPT !.pc = "restore", !.path = "miss"]
    /\ UNCHANGED <<cfg, client, store, m, hist>>

\* the store keeps the callback's value under the key and hands it back
CacheSet ==
    /\ q.pc = "set"
    /\ store' = {e \in store : e.key # q.key}
                \cup {Entry(q.key, q.cached, q.tags, q.revalidate, q.model,
                            AuthUserId(q.auth), q.results[Len(q.results)].value,
                            q.seen)}
    /\ q' = [q EXCEPT !.pc = "restore", !.path = "miss"]
    /\ UNCHANGED <<cfg, client, m, hist>>

\* the store fails after the callback has run
CacheSetFails ==
    /\ q.pc = "set"
    /\ q' = Caught([q EXCEPT !.storeError = "set", !.cached = Undef])
    /\ UNCHANGED <<cfg, client, store, m, hist>>

\* line 656: return restoreDates(cachedResult, model)
Restored(c, qq) ==
    [qq EXCEPT !.pc = "return",
               !.outcome = Returned(restoreDates(qq.cached, qq.model, c.prismaDecimal)),
               !.depth = Larger(@, restoreTypesInternalDepth(qq.cached, qq.model))]

RestoreCached ==
    /\ q.pc = "restore"
    /\ q' = Restored(cfg, q)
    /\ UNCHANGED <<cfg, client, store, m, hist>>

\* variant of Fallback: the result is restored without being frozen first
FallbackNoFreeze(c, qq, r) ==
    IF r.kind = "value"
    THEN [Proceeded(qq, r) EXCEPT
            !.pc = "return", !.path = "fallback",
            !.outcome = Returned(restoreDates(r.value, qq.model, c.prismaDecimal))]
    ELSE [Proceeded(qq, r) EXCEPT !.pc = "return", !.path = "fallback",
                                  !.outcome = r]

\* lines 660-663: the fallback of the catch block
Fallback(c, qq, r) ==
    IF r.kind = "value"
    THEN [Proceeded(qq, r) EXCEPT
            !.pc = "return", !.path = "fallback",
            !.outcome = Returned(restoreDates(transformDates(r.value), qq.model,
                                              c.prismaDecimal)),
            !.depth = Larger(@, Larger(transformDatesDepth(r.value),
                                       restoreTypesInternalDepth(
                                           transformDates(r.value), qq.model)))]
    ELSE [Proceeded(qq, r) EXCEPT !.pc = "return", !.path = "fallback",
                                  !.outcome = r]

CatchFallback ==
    /\ q.pc = "catch"
    /\ \E r \in ProceedOutcomes(q.model) :
           q' = [Fallback(cfg, q, r) EXCEPT !.seen = hist.mutations]
    /\ UNCHANGED <<cfg, client, store, m, hist>>

\* the history keeps the latest read of a cached model
Remember(qq, last) ==
    IF qq.path \in {"hit", "miss", "fallback"}
    THEN [ valid |-> TRUE, model |-> qq.model, operation |-> qq.operation,
           args |-> qq.args, auth |-> qq.auth, key |-> qq.key,
           tags |-> qq.tags,
           outcome |-> qq.outcome, storeError |-> qq.storeError,
           path |-> qq.path ]
    ELSE last

OnQueryReturn ==
    /\ q.pc = "return"
    /\ q' = IdleQ
    /\ hist' = [hist EXCEPT !.last = Remember(q, @)]
    /\ UNCHANGED <<cfg, client, store, m>>

(***************************************************************************)
(* afterEntityMutation (src/index.ts 568-587) with invalidateTag,          *)
(* invalidateCacheForModel and invalidateRelatedModelCache (678-742).      *)
(***************************************************************************)
\* invalidateTag(tag) starts: the next step is the updateTag attempt
StartTag(mm, phase, tag) ==
    [mm EXCEPT !.pc = "updateTag", !.phase = phase, !.tag = tag,
               !.issued = Append(@, tag)]

\* entity && typeof entity === 'object' && 'id' in entity
CarriesId(entity) ==
    Truthy(entity) /\ TypeofObject(entity) /\ HasKey(entity, "id")

RECURSIVE NextRelatedAll(_, _, _)
\* variant of NextRelated: the loop does not skip excluded models
NextRelatedAll(c, mm, j) ==
    LET relatedModels == getRelatedModels(mm.model)
    IN IF j > Len(relatedModels)
       THEN [mm EXCEPT !.pc = "done", !.phase = "related", !.j = j]
       ELSE StartTag([mm EXCEPT !.j = j], "related",
                     toLowerCase(relatedModels[j]) \o ":list")

RECURSIVE NextRelated(_, _, _)
\* lines 579-585: the loop over the related models, from index j on
NextRelated(c, mm, j) ==
    LET relatedModels == getRelatedModels(mm.model)
    IN IF j > Len(relatedModels)
       THEN [mm EXCEPT !.pc = "done", !.phase = "related", !.j = j]
       ELSE IF ~isExcludedModel(c, relatedModels[j])
            THEN StartTag([mm EXCEPT !.j = j], "related",
                          toLowerCase(relatedModels[j]) \o ":list")
            ELSE NextRelated(c, mm, j + 1)

\* variant of NextEntity: the loop issues a tag for every row, id or not
NextEntityAnyRow(c, mm, i) ==
    IF i > Len(mm.rows)
    THEN NextRelated(c, mm, 1)
    ELSE StartTag([mm EXCEPT !.i = i], "entities",
                  toLowerCase(mm.model) \o ":"
                  \o TemplateString(Get(mm.rows[i], "id")))

RECURSIVE NextEntity(_, _, _)
\* lines 715-721: the loop over the loaded entities, from index i on
NextEntity(c, mm, i) ==
    IF i > Len(mm.rows)
    THEN NextRelated(c, mm, 1)
    ELSE IF CarriesId(mm.rows[i])
         THEN StartTag([mm EXCEPT !.i = i], "entities",
                       toLowerCase(mm.model) \o ":"
                       \o TemplateString(Get(mm.rows[i], "id")))
         ELSE NextEntity(c, mm, i + 1)

\* where the hook goes on once invalidateTag has returned
Advance(c, mm) ==
    CASE mm.phase = "list" -> [mm EXCEPT !.pc = "loadEntities"]
      [] mm.phase = "entities" -> NextEntity(c, mm, mm.i + 1)
      [] OTHER -> NextRelated(c, mm, mm.j + 1)

AfterEntityMutationStart(model, loader) ==
    /\ m.pc = "idle"
    /\ hist.mutations < MaxMutations
    /\ m' = StartTag([IdleM EXCEPT !.model = model, !.loader = loader,
                                   !.pre = store],
                     "list", toLowerCase(model) \o ":list")
    /\ hist' = [hist EXCEPT !.mutations = @ + 1, !.last = NoLast]
    /\ UNCHANGED <<cfg, client, store, q>>

Call(fn, tag, window, ok) == [fn |-> fn, tag |-> tag, window |-> window, ok |-> ok]

\* variant of UpdateTagDone: revalidateTag runs after a successful updateTag
UpdateTagDoneThenRevalidate(c, mm) ==
    [mm EXCEPT !.pc = "revalidateTag", !.upd = "ok",
               !.calls = << Call("updateTag", mm.tag, "", TRUE) >>]

\* lines 682-686: updateTag(tag) succeeded, invalidateTag returns
UpdateTagDone(c, mm) ==
    Advance(c, [mm EXCEPT !.upd = "ok",
                          !.calls = << Call("updateTag", mm.tag, "", TRUE) >>])

\* line 687: updateTag(tag) threw, the catch block takes over
UpdateTagFailed(c, mm) ==
    [mm EXCEPT !.pc = "revalidateTag", !.upd = "throws",
               !.calls = << Call("updateTag", mm.tag, "", FALSE) >>]

\* line 684 fails: updateTag is not available, the catch block takes over
UpdateTagMissing(c, mm) ==
    [mm EXCEPT !.pc = "revalidateTag", !.upd = "unavailable", !.calls = << >>]

\* lines 689-692: revalidateTag(tag, 'max') succeeded
RevalidateTagDone(c, mm) ==
    Advance(c, [mm EXCEPT !.calls = Append(@, Call("revalidateTag", mm.tag, "max", TRUE))])

\* variant of RevalidateTagFailed: the failure reaches the host
RevalidateTagFailedRethrown(c, mm) ==
    [mm EXCEPT !.pc = "done", !.allOk = FALSE, !.failed = TRUE,
               !.calls = Append(@, Call("revalidateTag", mm.tag, "max", FALSE))]

\* lines 693-695: revalidateTag failed too; the failure is logged
RevalidateTagFailed(c, mm) ==
    Advance(c, [mm EXCEPT !.allOk = FALSE,
                          !.calls = Append(@, Call("revalidateTag", mm.tag, "max", FALSE))])

UpdateTagOk ==
    /\ m.pc = "updateTag"
    /\ m' = UpdateTagDone(cfg, m)
    /\ store' = Invalidate(store, m.tag)
    /\ UNCHANGED <<cfg, client, q, hist>>

UpdateTagThrows ==
    /\ m.pc = "updateTag"
    /\ m' = UpdateTagFailed(cfg, m)
    /\ UNCHANGED <<cfg, client, store, q, hist>>

UpdateTagUnavailable ==
    /\ m.pc = "updateTag"
    /\ m' = UpdateTagMissing(cfg, m)
    /\ UNCHANGED <<cfg, client, store, q, hist>>

RevalidateTagOk ==
    /\ m.pc = "revalidateTag"
    /\ m' = RevalidateTagDone(cfg, m)
    /\ store' = Invalidate(store, m.tag)
    /\ UNCHANGED <<cfg, client, q, hist>>

RevalidateTagThrows ==
    /\ m.pc = "revalidateTag"
    /\ m' = RevalidateTagFailed(cfg, m)
    /\ UNCHANGED <<cfg, client, store, q, hist>>

\* Suspending primitives: updateTag(tag) and revalidateTag(tag, 'max') hand
\* back a promise at once and settle later.  Lines 685 and 690 call them
\* without await, so invalidateTag logs and returns while the call is in flight.
UpdateTagSuspends ==
    /\ m.pc = "updateTag"
    /\ m' = UpdateTagDone(cfg, m)
    /\ hist' = [hist EXCEPT !.inflight = Append(@, m.tag)]
    /\ UNCHANGED <<cfg, client, store, q>>

RevalidateTagSuspends ==
    /\ m.pc = "revalidateTag"
    /\ m' = RevalidateTagDone(cfg, m)
    /\ hist' = [hist EXCEPT !.inflight = Append(@, m.tag)]
    /\ UNCHANGED <<cfg, client, store, q>>

\* one of the primitive calls in flight resolves: its tag is invalidated
PrimitiveSettles ==
    /\ hist.inflight # << >>
    /\ \E i \in 1..Len(hist.inflight) :
          /\ store' = Invalidate(store, hist.inflight[i])
          /\ hist' = [hist EXCEPT !.inflight =
                          SelectIdx(@, (1..Len(@)) \ {i}, 1)]
    /\ UNCHANGED <<cfg, client, q, m>>

\* variant of Loaded: a value that is not an array is walked as one row
LoadedAnyValue(c, mm, value) ==
    NextEntity(c, [mm EXCEPT !.loads = @ + 1,
                             !.rows = IF value.k = "array"
                                      THEN value.items ELSE << value >>], 1)

\* lines 713-714: the rows to walk; anything but an array gives none
Loaded(c, mm, value) ==
    NextEntity(c, [mm EXCEPT !.loads = @ + 1,
                             !.rows = IF Truthy(value) /\ value.k = "array"
                                      THEN value.items ELSE << >>], 1)

\* variant of LoadFailed: the failure of the loader reaches the host
LoadFailedRethrown(c, mm) ==
    [mm EXCEPT !.pc = "done", !.loads = @ + 1, !.failed = TRUE]

\* lines 723-726: a failure of the loader ends invalidateCacheForModel
LoadFailed(c, mm) == NextRelated(c, [mm EXCEPT !.loads = @ + 1], 1)

LoadEntities ==
    /\ m.pc = "loadEntities"
    /\ m' = IF m.loader.throws
            THEN LoadFailed(cfg, m)
            ELSE Loaded(cfg, m, m.loader.value)
    /\ UNCHANGED <<cfg, client, store, q, hist>>

AfterEntityMutationReturn ==
    /\ m.pc = "done"
    /\ m' = IdleM
    /\ UNCHANGED <<cfg, client, store, q, hist>>

(***************************************************************************)
(* The specifications.  The host runs one hook at a time.                  *)
(*   SpecQuery     the application's queries alone                         *)
(*   SpecPolicy    the queries over more shapes of args and options        *)
(*   SpecShapes    one caller's queries over the shapes of where/include   *)
(*   SpecMutation  the post-mutation hook alone                            *)
(*   SpecAsync     the post-mutation hook over suspending primitives       *)
(*   Spec          queries and mutations, one after the other              *)
(***************************************************************************)
QuerySteps ==
    \/ ProceedDirect
    \/ CacheUnavailable
    \/ CacheHit
    \/ CacheMiss
    \/ CacheCallback
    \/ CacheSet
    \/ CacheSetFails
    \/ RestoreCached
    \/ CatchFallback
    \/ OnQueryReturn

MutationSteps ==
    \/ UpdateTagOk
    \/ UpdateTagThrows
    \/ UpdateTagUnavailable
    \/ RevalidateTagOk
    \/ RevalidateTagThrows
    \/ LoadEntities
    \/ AfterEntityMutationReturn

InitQuery == Start(Options, Clients)

NextQuery ==
    \/ \E operation \in Operations, auth \in Auths :
           OnQueryStart(client.model, operation, client.args, auth)
    \/ QuerySteps

SpecQuery == InitQuery /\ [][NextQuery]_vars

InitMutation == Start(Options, {Client("User", Undef)})

NextMutation ==
    \/ \E model \in Models, loader \in Loaders :
           AfterEntityMutationStart(model, loader)
    \/ MutationSteps

SpecMutation == InitMutation /\ [][NextMutation]_vars

\* the post-mutation hook over loader results of every shape
NextLoader ==
    \/ \E model \in Models, loader \in Loaders \cup LoadersWithoutId :
           AfterEntityMutationStart(model, loader)
    \/ MutationSteps

SpecLoader == InitMutation /\ [][NextLoader]_vars

\* the queries of SpecQuery over args of every shape and the life options
InitPolicy ==
    Start({Option({}, NoGenerator), OptionLife("days")},
          {Client(model, queryArgs) :
              model \in {"User", "Post", "Article"}, queryArgs \in KeyArgs})

SpecPolicy == InitPolicy /\ [][NextQuery]_vars

\* the queries of one caller over args of many shapes, also on models the
\* schema does not know
ShapeModels == {"User", "Post", "Ghost", "UserProfile"}

InitShapes ==
    Start({Option({}, NoGenerator)},
          {Client(model, queryArgs) :
              model \in ShapeModels, queryArgs \in IdArgs \cup RelationArgs})

NextShapes ==
    \/ \E operation \in Operations :
           OnQueryStart(client.model, operation, client.args, Undef)
    \/ QuerySteps

SpecShapes == InitShapes /\ [][NextShapes]_vars

\* the queries of one caller under every operation name
InitOps == Start({Option({}, NoGenerator)}, {Client("User", Undef)})

NextOps ==
    \/ \E operation \in AllOperations :
           OnQueryStart(client.model, operation, client.args, Undef)
    \/ QuerySteps

SpecOps == InitOps /\ [][NextOps]_vars

\* the queries of one caller under every defaultCacheLife, one of them a
\* name that is not a profile
LifeOptions == {OptionLife(life) : life \in CacheLifeProfiles \cup {"forever"}}

InitLife ==
    Start(LifeOptions,
          {Client(model, Undef) : model \in {"User", "Post", "Article"}})

SpecLife == InitLife /\ [][NextShapes]_vars

\* the queries of one caller on Category, whose rows hold null and absent
\* values
InitNulls ==
    Start({Option({}, NoGenerator)},
          {Client("Category", queryArgs) : queryArgs \in {Undef, WhereId1}})

SpecNulls == InitNulls /\ [][NextShapes]_vars

\* queries and mutations of one caller on models the schema does not know
UnknownModels == {"Ghost", "UserProfile", "constructor"}

InitUnknown ==
    Start({Option({}, NoGenerator), OptionLife("days")},
          {Client(model, queryArgs) :
              model \in UnknownModels,
              queryArgs \in {Undef, WhereId1, IncludeAll, SelectMixed}})

NextUnknown ==
    \/ /\ m.pc = "idle"
       /\ \E operation \in Operations :
              OnQueryStart(client.model, operation, client.args, Undef)
    \/ QuerySteps
    \/ /\ q.pc = "idle"
       /\ \E loader \in Loaders : AfterEntityMutationStart(client.model, loader)
    \/ MutationSteps

SpecUnknown == InitUnknown /\ [][NextUnknown]_vars

\* reads that name relations, flat and nested, followed by mutations
RelationModels == {"User", "Post", "Category", "Article"}

InitRelations ==
    Start({Option({}, NoGenerator), Option({"Post"}, NoGenerator)},
          {Client(model, queryArgs) :
              model \in RelationModels,
              queryArgs \in {IncludeAll, SelectMixed, IncludeAndSelect,
                             NestedInclude, NestedSelect}})

\* the post-mutation hook over suspending invalidation primitives
NextAsync ==
    \/ \E model \in Models, loader \in Loaders :
           AfterEntityMutationStart(model, loader)
    \/ UpdateTagSuspends
    \/ UpdateTagThrows
    \/ UpdateTagUnavailable
    \/ RevalidateTagSuspends
    \/ RevalidateTagThrows
    \/ PrimitiveSettles
    \/ LoadEntities
    \/ AfterEntityMutationReturn

SpecAsync == InitMutation /\ [][NextAsync]_vars

Init == Start(Options, {Client(model, queryArgs) :
                            model \in Models, queryArgs \in {Undef, IncludeAll}})

Next ==
    \/ /\ m.pc = "idle"
       /\ OnQueryStart(client.model, "findMany", client.args, Undef)
    \/ QuerySteps
    \/ /\ q.pc = "idle"
       /\ \E model \in Models, loader \in Loaders :
              AfterEntityMutationStart(model, loader)
    \/ MutationSteps

Spec == Init /\ [][Next]_vars

SpecRelations == InitRelations /\ [][Next]_vars

\* reads and mutations of one model running concurrently: the steps of
\* onQuery and of afterEntityMutation interleave at their awaits; the
\* invalidation primitive works
InitConcurrent ==
    Start({Option({}, NoGenerator)},
          {Client(model, queryArgs) :
              model \in {"User", "Post"}, queryArgs \in {Undef, WhereId1}})

NextConcurrent ==
    \/ \E operation \in Operations :
           OnQueryStart(client.model, operation, client.args, Undef)
    \/ QuerySteps
    \/ \E loader \in Loaders : AfterEntityMutationStart(client.model, loader)
    \/ UpdateTagOk
    \/ LoadEntities
    \/ AfterEntityMutationReturn

SpecConcurrent == InitConcurrent /\ [][NextConcurrent]_vars

(***************************************************************************)
(* Properties.                                                             *)
(***************************************************************************)
IsPrefix(a, b) == Len(a) <= Len(b) /\ \A i \in 1..Len(a) : a[i] = b[i]

\* the rows the loader hands over: the elements of the array it returns
RowsOf(loader) ==
    IF ~loader.throws /\ loader.value.k = "array" THEN loader.value.items ELSE << >>

\* lower(M):<id> for each row that carries an id, in row order
EntityTags(model, loader) ==
    LET rows == RowsOf(loader)
        with == SelectIdx(rows, {i \in 1..Len(rows) : HasKey(rows[i], "id")}, 1)
    IN [i \in 1..Len(with) |->
            toLowerCase(model) \o ":" \o TemplateString(Get(with[i], "id"))]

\* the models listed in excludeModels or carrying @@cache.exclude
ExcludedModels(c) ==
    c.excludeModels
    \cup {x \in Models :
             \E i \in 1..Len(Schema[x].attributes) :
                 Schema[x].attributes[i].name = "@@cache.exclude"}

\* lower(X):list for the related model X of every relation field of M that is
\* not excluded
RelatedListTags(c, model) ==
    LET fs == Schema[model].fields
        rel == SelectIdx(fs, {i \in 1..Len(fs) :
                                 /\ fs[i].relation
                                 /\ fs[i].type \notin ExcludedModels(c)}, 1)
    IN [i \in 1..Len(rel) |-> toLowerCase(rel[i].type) \o ":list"]

ExpectedInvalidations(c, model, loader) ==
    << toLowerCase(model) \o ":list" >>
    \o EntityTags(model, loader)
    \o RelatedListTags(c, model)

\* C1: afterEntityMutation for model M whose loader returned rows R hands
\* the tags to invalidateTag in the order lower(M):list, then lower(M):<id>
\* for each row of R that carries an id, in row order, then lower(X):list for
\* every relation field of M whose related model X is not excluded; at every
\* moment the tags issued so far are a prefix of that sequence.
C1_InvalidationOrder ==
    (m.pc # "idle" /\ ~m.loader.throws) =>
        /\ IsPrefix(m.issued, ExpectedInvalidations(cfg, m.model, m.loader))
        /\ (m.pc = "done" =>
                m.issued = ExpectedInvalidations(cfg, m.model, m.loader))

\* a mutation of User whose loader returned three rows, one without an id,
\* has run to its end
C1_Witness ==
    /\ m.pc = "done"
    /\ m.model = "User"
    /\ Len(RowsOf(m.loader)) = 3
    /\ m.issued = << "user:list", "user:1", "user:2",
                     "post:list", "user:list", "article:list" >>

\* C4: afterEntityMutation always completes normally: whatever the two
\* primitives do on any tag, no failure reaches the host, and every tag of
\* the mutation is still attempted.
C4_InvalidationNeverFails ==
    /\ ~m.failed
    /\ (m.pc = "done" =>
            m.issued = ExpectedInvalidations(cfg, m.model, m.loader))

\* a mutation has run to its end although both primitives failed on a tag
C4_Witness ==
    /\ m.pc = "done"
    /\ ~m.allOk
    /\ Len(m.issued) >= 3
    /\ \E i \in 1..Len(m.calls) : ~m.calls[i].ok

HasCall(fn) == \E i \in 1..Len(m.calls) : m.calls[i].fn = fn

C2_OwnTagsInvalidated ==
    (m.pc = "done" /\ m.allOk /\ m.model \notin ExcludedModels(cfg)) =>
        \A e \in m.pre :
            e.model = m.model => Range(e.tags) \cap Range(m.issued) # {}

\* C3: in every branch of onQuery, a failure of proceed is the failure of
\* onQuery, and no further proceed call follows it.
C3_ProceedFailurePropagates ==
    q.pc = "return" =>
        \A i \in 1..Len(q.results) :
            q.results[i].kind = "error" =>
                /\ q.outcome = q.results[i]
                /\ Len(q.results) = i

\* the tags and the keys whose model segment is model x
EntityIds == {"1", "2"}

SegmentTags(x) ==
    {toLowerCase(x) \o ":list"} \cup {toLowerCase(x) \o ":" \o id : id \in EntityIds}

SegmentKeys(x) ==
    {generateCacheKey(x, operation, queryArgs, AuthUserId(auth)) :
        operation \in Operations, queryArgs \in QueryArgs, auth \in Auths}

\* C5: no cache key and no tag whose model segment is an excluded model is
\* handed to the cache store or to an invalidation primitive, by onQuery or
\* by afterEntityMutation, also when the excluded model is the queried or
\* the mutated model itself.
C5_ExcludedNeverKeyOrTag ==
    \A x \in ExcludedModels(cfg) :
        /\ q.toStore => /\ q.key \notin SegmentKeys(x)
                        /\ Range(q.tags) \cap SegmentTags(x) = {}
        /\ \A i \in 1..Len(m.calls) : m.calls[i].tag \notin SegmentTags(x)

\* C7: for fixed (model, operation, args), reads by callers with different
\* identities use different cache keys, and a read is never served an entry
\* that a caller with another identity stored.
C7_CallerIsolation ==
    /\ (/\ hist.last.valid
        /\ q.key # << >>
        /\ q.operation = hist.last.operation
        /\ AuthUserId(q.auth) # AuthUserId(hist.last.auth))
       => q.key # hist.last.key
    /\ q.path = "hit" => EntryOf(store, q.key).owner = AuthUserId(q.auth)

\* C8: of two successive reads with identical (model, operation, args,
\* caller), with a working store and no invalidation in between, the second
\* passes the same key, is served from the store without a proceed call and
\* returns the value of the first.
C8_SecondReadIsHit ==
    (/\ q.pc = "return"
     /\ q.path \in {"hit", "miss", "fallback"}
     /\ q.storeError = ""
     /\ hist.last.valid
     /\ hist.last.operation = q.operation
     /\ hist.last.auth = q.auth
     /\ hist.last.outcome.kind = "value"
     /\ hist.last.storeError = "")
    => /\ q.key = hist.last.key
       /\ q.calls = 0
       /\ q.outcome = hist.last.outcome

\* thaw(freeze(v), model)
Codec(v, model) == restoreDates(transformDates(v), model, cfg.prismaDecimal)

\* C9: for an executor result v and a model, a read returns thaw(freeze(v))
\* on a cache miss, on a later hit of that entry, and on the fallback path.
C9_SameValueOnEveryPath ==
    (q.pc = "return" /\ q.outcome.kind = "value") =>
        CASE q.path = "hit" ->
                q.outcome.value = Codec(EntryOf(store, q.key).source, q.model)
          [] q.path \in {"miss", "fallback"} ->
                q.outcome.value = Codec(q.results[Len(q.results)].value, q.model)
          [] OTHER -> TRUE

\* a read of User is served from the store a row whose createdAt is a Date
\* again and whose seenAt stays an ISO string
C9_Witness ==
    /\ q.pc = "return"
    /\ q.path = "hit"
    /\ q.model = "User"
    /\ EntryOf(store, q.key).source = Row1
    /\ Get(q.outcome.value, "createdAt") = DateV(1)
    /\ Get(q.outcome.value, "seenAt") = Str(toISOString(2))

\* C10: when the cache store is unavailable (its lookup fails before the
\* callback runs) and proceed succeeds, the read does not fail: proceed has
\* been called exactly once and the read returns thaw(freeze(result)).
C10_FallbackWhenStoreUnavailable ==
    (q.pc = "return" /\ q.storeError = "unavailable") =>
        /\ q.calls = 1
        /\ Len(q.results) = 1
        /\ q.results[1].kind = "value" =>
               q.outcome = Returned(Codec(q.results[1].value, q.model))

\* a read whose store was unavailable has returned the restored row
C10_Witness ==
    /\ q.pc = "return"
    /\ q.storeError = "unavailable"
    /\ q.model = "User"
    /\ q.results = << Returned(Row1) >>
    /\ q.outcome.kind = "value"
    /\ Get(q.outcome.value, "createdAt") = DateV(1)

\* what an onQuery invocation looks like when it delegates to proceed and
\* does nothing else: no key, no tags, no cache store, no codec
Delegated(qq) ==
    /\ ~qq.toStore
    /\ qq.key = << >>
    /\ qq.tags = << >>
    /\ qq.cached = Undef
    /\ qq.storeError = ""
    /\ qq.calls <= 1
    /\ (qq.pc = "return" =>
           /\ qq.calls = 1
           /\ qq.passed = << qq.args >>
           /\ qq.outcome = qq.results[1])

\* C11: for a model excluded by the excludeModels option or by the
\* @@cache.exclude attribute, onQuery with any operation calls proceed
\* exactly once with the original args and returns its result unchanged;
\* the cache store is never invoked and no key, tag or codec work is done.
C11_ExcludedDelegates ==
    (q.pc # "idle" /\ q.model \in ExcludedModels(cfg)) =>
        /\ Delegated(q)
        /\ store = {}

\* a read of Session, excluded by its attribute, has returned the row of
\* proceed with its Date values untouched
C11_Witness ==
    /\ q.pc = "return"
    /\ q.model = "Session"
    /\ q.operation = "findMany"
    /\ q.args = IncludeAll
    /\ q.passed = << IncludeAll >>
    /\ q.outcome = Returned(Row1)

\* C12: for a non-excluded model and an operation outside the read set,
\* onQuery calls proceed exactly once with the original args and returns its
\* result unchanged (Date values stay Date values); it invokes neither the
\* cache store nor an invalidation primitive.
C12_WriteDelegates ==
    (/\ q.pc # "idle"
     /\ q.model \notin ExcludedModels(cfg)
     /\ q.operation \notin Range(READ_OPERATIONS)) =>
        /\ Delegated(q)
        /\ m.issued = << >>
        /\ m.calls = << >>
        /\ \A e \in store : e.key[1] # toLowerCase(q.model) \o ":" \o q.operation

\* an update of User has returned the row of proceed, createdAt still a Date
C12_Witness ==
    /\ q.pc = "return"
    /\ q.model = "User"
    /\ q.operation = "update"
    /\ q.passed = << q.args >>
    /\ q.outcome = Returned(Row1)
    /\ Get(q.outcome.value, "createdAt") = DateV(1)

\* lower(R):list for each model R of a sequence of related models
ListTagsOf(related) ==
    [i \in 1..Len(related) |-> toLowerCase(related[i]) \o ":list"]

\* the relations extracted from the args whose related model is not excluded
CachedRelations(c, queryArgs, model) ==
    LET rel == extractIncludedRelations(queryArgs, model)
    IN SelectIdx(rel, {i \in 1..Len(rel) : rel[i] \notin ExcludedModels(c)}, 1)

SourceOf(qq, st) ==
    IF qq.path = "hit" THEN EntryOf(st, qq.key).source
    ELSE qq.results[Len(qq.results)].value

RECURSIVE HasDate(_)
HasDate(v) ==
    CASE v.k = "date" -> TRUE
      [] v.k = "array" -> \E i \in 1..Len(v.items) : HasDate(v.items[i])
      [] v.k = "object" -> \E i \in 1..Len(v.ent) : HasDate(v.ent[i][2])
      [] OTHER -> FALSE

\* the value of a date field: a date, or for a list field a sequence of dates
IsDateValue(v) ==
    \/ v.k = "date"
    \/ v.k = "array" /\ \A i \in 1..Len(v.items) : v.items[i].k = "date"

RECURSIVE Described(_, _)
\* the descriptors of the model describe the date fields of v: every date of
\* v is the value of a DateTime field of the model it belongs to, and nested
\* rows sit under the relation field of their model
Described(v, model) ==
    CASE v.k = "date" -> FALSE
      [] v.k = "array" -> \A i \in 1..Len(v.items) : Described(v.items[i], model)
      [] v.k = "object" ->
            \A i \in 1..Len(v.ent) :
                LET key == v.ent[i][1]
                    value == v.ent[i][2]
                    fs == {f \in Range(Schema[model].fields) : f.name = key}
                IN IF \E f \in fs : f.type = "DateTime"
                   THEN IsDateValue(value) \/ value.k = "null"
                   ELSE IF \E f \in fs : f.relation
                        THEN Described(value, (CHOOSE f \in fs : TRUE).type)
                        ELSE ~HasDate(value)
      [] OTHER -> TRUE

\* C14: round-trip law: for a value v of dates, nested structures and
\* sequences and a model whose field descriptors describe the date fields of
\* v, thaw(freeze(v), model) equals v; a Date under a DateTime field returned
\* by a cached read is a Date again.
C14_RoundTrip ==
    (/\ q.pc = "return"
     /\ q.path \in {"hit", "miss", "fallback"}
     /\ q.outcome.kind = "value"
     /\ Described(SourceOf(q, store), q.model))
    => q.outcome.value = SourceOf(q, store)

\* C15: within one afterEntityMutation the invalidation primitive calls are
\* strictly sequential, also when the primitives are suspending operations:
\* each call has resolved before the next one is started, so at most one
\* invalidation is in flight at any time.
C15_OneInvalidationInFlight ==
    /\ Len(hist.inflight) <= 1
    /\ (m.pc \in {"updateTag", "revalidateTag"} => hist.inflight = << >>)

\* proceed failed inside the callback the cache store ran for this read
ComputeFailed(qq) ==
    /\ qq.toStore
    /\ qq.path # "hit"
    /\ Len(qq.results) >= 1
    /\ qq.results[1].kind = "error"

\* C16: if proceed fails during a read's compute-if-absent, nothing is
\* stored under that read's key; a later identical read finds no entry and
\* calls proceed again.
C16_NoWriteForFailedRead ==
    /\ ComputeFailed(q) => ~HasEntry(store, q.key)
    /\ (/\ hist.last.valid
        /\ hist.last.path = "fallback"
        /\ hist.last.storeError = ""
        /\ q.operation = hist.last.operation
        /\ q.auth = hist.last.auth
        /\ q.pc = "return")
       => /\ q.key = hist.last.key
          /\ q.path # "hit"
          /\ q.calls >= 1

\* after a read whose compute failed, the identical read has missed, called
\* proceed and stored its result
C16_Witness ==
    /\ hist.last.valid
    /\ hist.last.path = "fallback"
    /\ hist.last.storeError = ""
    /\ q.auth = hist.last.auth
    /\ q.key = hist.last.key
    /\ q.pc = "return"
    /\ q.path = "miss"
    /\ q.calls = 1
    /\ HasEntry(store, q.key)

\* C17: the tag sequence onQuery passes to the cache store for a read
\* depends only on (model, args, plugin options, schema): the same read
\* repeated yields the same tags whatever reads ran before it, also when
\* customTagGenerator returns the same array object on every call; onQuery
\* changes no state that survives the call.
C17_TagsComputedFresh ==
    /\ (hist.last.valid /\ q.key # << >>) => q.tags = hist.last.tags
    /\ cfg.customTagGenerator.array \in {<< >>, << "all" >>}

\* C18: generateCacheKey returns 1 or 2 strings.  The base is the optional
\* prefix user:<callerId>: followed by lower(model):operation; the key is
\* [base] when args is absent or not a structured value and
\* [base, serialization of args] for every structured args, the empty
\* object {} included.
C18_KeyShape ==
    q.key # << >> =>
        LET plain == toLowerCase(q.model) \o ":" \o q.operation
            id == AuthUserId(q.auth)
            base == q.key[1]
        IN /\ Len(q.key) \in {1, 2}
           /\ \/ base = plain
              \/ id.k = "string" /\ base = "user:" \o id.s \o ":" \o plain
           /\ (id.k = "undefined" => base = plain)
           /\ (id \in {Str("u1"), Str("u2")} => base # plain)
           /\ (q.args \in {Undef, Null, Str("x")} => q.key = << base >>)
           /\ (q.args = EmptyArgs => q.key = << base, "{}" >>)
           /\ (q.args = Arr(<< >>) => q.key = << base, "[]" >>)
           /\ (q.args = WhereId1 =>
                  q.key = << base, "{\"where\":{\"id\":\"1\"}}" >>)

\* caller u1 reads User with args {}: the key has the prefix and the text {}
C18_Witness ==
    /\ q.model = "User"
    /\ q.args = EmptyArgs
    /\ q.key = << "user:u1:user:findMany", "{}" >>

\* the life a model declares, when it is one of the six profile names
DeclaredLife(model) ==
    {a.args[1].s : a \in {b \in Range(Schema[model].attributes) :
                             /\ b.name = "@@cache.life"
                             /\ Len(b.args) = 1
                             /\ b.args[1].k = "string"
                             /\ b.args[1].s \in {"seconds", "minutes", "hours",
                                                  "days", "weeks", "max"}}}

\* C20: on every cached read the ttl passed to the cache store is
\* secondsFor(lifeFor(model)): the model's @@cache.life value when it is one
\* of the six profile names, otherwise the configured defaultCacheLife
\* (default 'hours', 3600 seconds); the ttl is a positive integer.
C20_TtlOfRead ==
    q.key # << >> =>
        /\ q.revalidate \in Nat \ {0}
        /\ \A life \in DeclaredLife(q.model) :
               q.revalidate = getCacheRevalidateSeconds(life)
        /\ (DeclaredLife(q.model) = {} =>
               q.revalidate = getCacheRevalidateSeconds(cfg.defaultCacheLife))
        /\ (q.model = "Article" => q.revalidate = 60)
        /\ (q.model \in {"User", "Post"} =>
               q.revalidate = IF cfg.defaultCacheLife = "days" THEN 86400 ELSE 3600)

\* a read of Post, whose declared life is not a profile name, is stored for
\* the configured default of one day
C20_Witness ==
    /\ q.toStore
    /\ q.model = "Post"
    /\ cfg.defaultCacheLife = "days"
    /\ q.revalidate = 86400
    /\ HasEntry(store, q.key)
    /\ EntryOf(store, q.key).revalidate = 86400

\* the tags a model declares with @@cache.tags
DeclaredTags(model) ==
    IF model = "Article" THEN << "posts", "content" >> ELSE << >>

WhereId(queryArgs) ==
    CASE queryArgs = WhereId1 -> Str("1")
      [] queryArgs = WhereIdOf(Str("")) -> Str("")
      [] queryArgs = WhereIdOf(Num(2)) -> Str("2")
      [] queryArgs = WhereIdOf(Num(0)) -> Str("0")
      [] OTHER -> Undef

\* C21: for every model name m and id i default tag generation returns
\* [lower(m):list, lower(m):i], and [lower(m):list] when no id is given; the
\* model segment is lower-cased.  (Reads without relations and without
\* custom tags: their tags are the default tags of the model and the id.)
C21_DefaultTags ==
    (/\ q.key # << >>
     /\ q.model \in {"Post", "Ghost", "UserProfile"}
     /\ q.args \in IdArgs) =>
        LET lower == CASE q.model = "Post" -> "post"
                       [] q.model = "Ghost" -> "ghost"
                       [] OTHER -> "userprofile"
            i == WhereId(q.args)
        IN q.tags = IF i = Undef
                    THEN << lower \o ":list" >>
                    ELSE << lower \o ":list", lower \o ":" \o i.s >>

\* C22: extractIdFromArgs looks only at args.where.id: a string id is
\* returned as it is, a numeric id as its text, and every other input
\* (absent or non-structured args, no where, no id, an id of another shape)
\* yields no id.
C22_IdFromWhere ==
    q.key # << >> =>
        /\ q.id = WhereId(q.args)
        /\ q.id.k \in {"string", "undefined"}
        /\ (q.args \in {Undef, Null, Str("x"), EmptyArgs, WhereOf(Null),
                        WhereOf(Str("x")), WhereOf(Obj(<< >>)),
                        Obj(<< <<"id", Str("1")>> >>)} => q.id = Undef)

\* a read of Post by the numeric id 2 has the id "2" and the tag post:2
C22_Witness ==
    /\ q.model = "Post"
    /\ q.args = WhereIdOf(Num(2))
    /\ q.id = Str("2")
    /\ q.tags = << "post:list", "post:2" >>

\* the related models of the relation fields of the model that args names
\* in include with a truthy value or in select with a structured value
NamedRelations(model, queryArgs) ==
    CASE model = "User" /\ queryArgs = IncludeAll -> << "Post", "Session" >>
      [] model = "User" /\ queryArgs = IncludeMixed -> << "User" >>
      [] model = "User" /\ queryArgs = SelectMixed -> << "User" >>
      [] model = "User" /\ queryArgs = IncludeAndSelect -> << "Post", "Post" >>
      [] model = "Post" /\ queryArgs = IncludeAll -> << "User" >>
      [] model = "Post" /\ queryArgs = IncludeMixed -> << "User" >>
      [] model = "Post" /\ queryArgs = SelectMixed -> << "User", "Category" >>
      [] model = "Post" /\ queryArgs = IncludeAndSelect -> << "User", "User" >>
      [] model = "Category" /\ queryArgs = IncludeAll -> << "Post" >>
      [] model = "Category" /\ queryArgs = IncludeAndSelect -> << "Post", "Post" >>
      [] model = "Article" /\ queryArgs = IncludeAll -> << "User" >>
      [] model = "Article" /\ queryArgs = IncludeMixed -> << "User" >>
      [] model = "Article" /\ queryArgs = IncludeAndSelect -> << "User", "User" >>
      [] model = "User" /\ queryArgs = NestedInclude -> << "Post" >>
      [] model = "User" /\ queryArgs = NestedSelect -> << "Post" >>
      [] model = "Category" /\ queryArgs = NestedInclude -> << "Post" >>
      [] model = "Category" /\ queryArgs = NestedSelect -> << "Post" >>
      [] OTHER -> << >>

\* C23: extractIncludedRelations(args, model) returns the related model of
\* exactly those fields of the model that are relation fields and are named
\* in args.include with a truthy value or in args.select with a structured
\* (non-boolean) value; false values, non-relation fields and unknown field
\* names are ignored; absent or non-structured args give the empty list.
C23_RelationsOfArgs ==
    q.key # << >> => q.included = NamedRelations(q.model, q.args)

\* a read of Post whose select names author with true, editor with an
\* object and category with an array
C23_Witness ==
    /\ q.model = "Post"
    /\ q.args = SelectMixed
    /\ q.included = << "User", "Category" >>
    /\ q.tags = << "post:list", "user:list", "category:list" >>

\* C24: isReadOperation holds for exactly findMany, findUnique, findFirst,
\* findUniqueOrThrow, findFirstOrThrow, count, aggregate and groupBy, and for
\* no other name (the seven write operations included): only the eight are
\* routed through the cache store, every other operation is delegated.
C24_ReadOperations ==
    q.pc # "idle" =>
        LET read == q.operation \in
                        {"findMany", "findUnique", "findFirst",
                         "findUniqueOrThrow", "findFirstOrThrow", "count",
                         "aggregate", "groupBy"}
        IN /\ read <=> q.key # << >>
           /\ read <=> q.path # "write"
           /\ q.toStore => read
           /\ (HasEntry(store, q.key) \/ q.pc \in {"unstable_cache", "callback",
                                                   "set", "restore", "catch"})
                  => read

\* a groupBy was computed and stored; its key names the operation
C24_Witness ==
    /\ q.operation = "groupBy"
    /\ q.path = "miss"
    /\ q.pc = "return"
    /\ HasEntry(store, << "user:groupBy" >>)

\* C25: getCacheRevalidateSeconds maps seconds to 1, minutes to 60, hours to
\* 3600, days to 86400, weeks to 604800 and max to 31536000; any unrecognized
\* profile value maps to 3600.  (Reads of User and Post, which declare no
\* valid life: their ttl is that of the configured defaultCacheLife.)
C25_SecondsOfProfile ==
    (q.key # << >> /\ q.model \in {"User", "Post"}) =>
        LET life == cfg.defaultCacheLife
        IN /\ life = "seconds" => q.revalidate = 1
           /\ life = "minutes" => q.revalidate = 60
           /\ life = "hours" => q.revalidate = 60 * 60
           /\ life = "days" => q.revalidate = 24 * 60 * 60
           /\ life = "weeks" => q.revalidate = 7 * 24 * 60 * 60
           /\ life = "max" => q.revalidate = 365 * 24 * 60 * 60
           /\ life \notin {"seconds", "minutes", "hours", "days", "weeks", "max"}
                  => q.revalidate = 3600

\* under a defaultCacheLife that is no profile name a read of User was
\* stored for one hour
C25_Witness ==
    /\ cfg.defaultCacheLife = "forever"
    /\ q.model = "User"
    /\ q.path = "miss"
    /\ HasEntry(store, q.key)
    /\ EntryOf(store, q.key).revalidate = 3600

\* C26: transformDates and restoreDates return null and absent values
\* unchanged and never fail on them, at the top level and at any nesting
\* depth; a read whose executor result is null returns null through the
\* cached path.  (The rows of Category hold no dates: what the callback
\* hands to the store, and what the fallback returns, is the executor's
\* result itself.)
C26_NullPassthrough ==
    q.model = "Category" =>
        /\ (q.pc = "set" => q.cached = q.results[1].value)
        /\ (q.pc = "return" /\ q.path = "fallback"
                /\ q.results[Len(q.results)].kind = "value") =>
               q.outcome = Returned(q.results[Len(q.results)].value)
        /\ (q.pc = "return" /\ q.path \in {"hit", "miss"}
                /\ SourceOf(q, store) = Null) =>
               q.outcome = Returned(Null)

\* the fallback returned the row with its null and absent values
C26_Witness ==
    /\ q.model = "Category"
    /\ q.pc = "return"
    /\ q.path = "fallback"
    /\ q.outcome = Returned(NullRow)
    /\ Get(Get(NullRow, "posts").items[3], "author") = Null
    /\ Get(NullRow, "name") = Undef

\* C27: for a model name unknown to the schema the metadata lookups return
\* empty containers and never fail: getRelatedModels returns the empty list,
\* the model is not attribute-excluded and has no custom tags or custom
\* life, so its reads get default tags and the default life.
C27_UnknownModel ==
    LET lower(model) == CASE model = "Ghost" -> "ghost"
                          [] model = "UserProfile" -> "userprofile"
                          [] OTHER -> model
    IN /\ (q.pc # "idle" /\ q.model \notin DOMAIN Schema) =>
              /\ q.path # "excluded"
              /\ q.operation = "findMany" =>
                     /\ q.key # << >>
                     /\ q.included = << >>
                     /\ q.tags = << lower(q.model) \o ":list" >>
                                 \o (IF q.args = WhereId1
                                     THEN << lower(q.model) \o ":1" >>
                                     ELSE << >>)
                     /\ q.revalidate = IF cfg.defaultCacheLife = "days"
                                       THEN 86400 ELSE 3600
       /\ (m.pc # "idle" /\ m.model \notin DOMAIN Schema) =>
              /\ m.issued[1] = lower(m.model) \o ":list"
              /\ \A i \in 2..Len(m.issued) :
                     m.issued[i] \in {lower(m.model) \o ":1", lower(m.model) \o ":2"}
              /\ (m.pc = "done" =>
                     /\ m.phase = "related"
                     /\ m.j = 1)

\* a read of Ghost that names relations of other models was stored under the
\* tag ghost:list alone for the default life, and a mutation of Ghost with
\* two rows has ended after the tags of Ghost
C27_Witness ==
    /\ client = Client("Ghost", IncludeAll)
    /\ cfg.defaultCacheLife = "days"
    /\ m.pc = "done"
    /\ m.issued = << "ghost:list", "ghost:1", "ghost:2" >>
    /\ \E e \in m.pre : /\ e.model = "Ghost"
                         /\ e.tags = << "ghost:list" >>
                         /\ e.revalidate = 86400

\* C28: in a single onQuery invocation proceed is invoked at most once: zero
\* times on a cache hit, once on a miss, once on the fallback path, also when
\* the cache store or the codec fails after the compute callback has already
\* run proceed.
C28_ProceedAtMostOnce ==
    /\ q.calls <= 1
    /\ q.pc = "return" =>
           /\ q.path = "hit" => q.calls = 0
           /\ q.path = "miss" => q.calls = 1
           /\ q.path = "fallback" => q.calls = 1

\* lower(R):list, written out for the models of the schema
ListTag(model) ==
    CASE model = "User" -> "user:list"
      [] model = "Post" -> "post:list"
      [] model = "Session" -> "session:list"
      [] model = "Category" -> "category:list"
      [] model = "Article" -> "article:list"

\* C29: with default tags, a cached read of M whose include (truthy value)
\* or select (structured value) names a relation field to a non-excluded
\* model R carries the tag lower(R):list, and a completed afterEntityMutation
\* for R, with a working invalidation primitive, invalidates that tag: the
\* entry of the read is no longer in the cache store.
\* (Every entry of the store was stored by a read with the client's args.)
C29_RelatedReadInvalidated ==
    cfg.customTagGenerator = NoGenerator =>
        /\ q.key # << >> =>
               \A R \in Range(NamedRelations(q.model, q.args)) \ ExcludedModels(cfg) :
                   ListTag(R) \in Range(q.tags)
        /\ (m.pc = "done" /\ m.allOk /\ m.model \notin ExcludedModels(cfg)) =>
               \A e \in m.pre :
                   m.model \in Range(NamedRelations(e.model, client.args)) =>
                       /\ ListTag(m.model) \in Range(e.tags)
                       /\ ListTag(m.model) \in Range(m.issued)
                       /\ e \notin store

\* a read of Post whose select names editor with an object was stored with
\* the tag user:list, and a mutation of User has removed the entry
C29_Witness ==
    /\ client = Client("Post", SelectMixed)
    /\ cfg = Option({}, NoGenerator)
    /\ m.pc = "done"
    /\ m.allOk
    /\ m.model = "User"
    /\ \E e \in m.pre :
           /\ e.tags = << "post:list", "user:list", "category:list" >>
           /\ e \notin store
    /\ store = {}

RECURSIVE NestedRelations(_, _)
\* the models a read of the model reaches through the relation fields its
\* args name in include (truthy value) or select (structured value), at
\* any nesting depth
NestedRelations(model, queryArgs) ==
    IF queryArgs.k # "object" \/ model \notin DOMAIN Schema THEN {}
    ELSE LET target(name) ==
                 (CHOOSE f \in Range(Schema[model].fields) : f.name = name).type
             named(clause, structured) ==
                 IF clause.k # "object" THEN {}
                 ELSE {i \in 1..Len(clause.ent) :
                          /\ clause.ent[i][2] \notin
                                 {Undef, Null, Bool(FALSE), Str(""), Num(0)}
                          /\ structured => clause.ent[i][2].k \in {"object", "array"}
                          /\ \E f \in Range(Schema[model].fields) :
                                 f.name = clause.ent[i][1] /\ f.relation}
             below(clause, structured) ==
                 UNION {{target(clause.ent[i][1])}
                        \cup NestedRelations(target(clause.ent[i][1]), clause.ent[i][2]) :
                        i \in named(clause, structured)}
         IN below(Get(queryArgs, "include"), FALSE)
            \cup below(Get(queryArgs, "select"), TRUE)

\* C30: with default tags and no excluded model among those of the read and
\* the mutation: if a cached read of M reaches model R through a chain of
\* relations named in nested include/select at any nesting depth, then a
\* completed afterEntityMutation for R, with a working invalidation
\* primitive, invalidates at least one tag of that cached entry.
C30_NestedReadInvalidated ==
    (/\ m.pc = "done"
     /\ m.allOk
     /\ cfg.customTagGenerator = NoGenerator
     /\ cfg.excludeModels = {}) =>
        \A e \in m.pre :
            (/\ DeclaredTags(e.model) = << >>
             /\ m.model \in NestedRelations(e.model, client.args)
             /\ ({e.model, m.model} \cup NestedRelations(e.model, client.args))
                    \cap ExcludedModels(cfg) = {}) =>
                /\ Range(e.tags) \cap Range(m.issued) # {}
                /\ e \notin store

\* C31: with a read miss of model M running concurrently with a mutation of
\* M: once afterEntityMutation for M has completed, the cache store holds no
\* live entry of M computed from pre-mutation data, and a read of M started
\* after that point never returns pre-mutation data.
C31_NoStaleEntryAfterMutation ==
    /\ (hist.mutations >= 1 /\ m.pc \in {"idle", "done"}) =>
           \A e \in store : e.model = client.model => e.epoch = hist.mutations
    /\ (q.pc = "return" /\ q.outcome.kind = "value" /\ q.began >= 1) =>
           q.seen >= q.began

\* C32: read-time and write-time widening never emit lower(R):list for a
\* related model R that is excluded (by excludeModels or by @@cache.exclude):
\* it is neither attached to a read of M that includes R nor invalidated by
\* a mutation of M.
C32_NoExcludedRelatedTag ==
    \A R \in ExcludedModels(cfg) :
        /\ q.key # << >> => ListTag(R) \notin Range(q.tags)
        /\ \A e \in store : ListTag(R) \notin Range(e.tags)
        /\ (m.pc \in {"updateTag", "revalidateTag"} /\ m.phase = "related") =>
               /\ m.tag # ListTag(R)
               /\ Schema[m.model].fields[
                      CHOOSE i \in 1..Len(Schema[m.model].fields) :
                          Cardinality({l \in 1..i :
                              Schema[m.model].fields[l].relation}) = m.j
                          /\ Schema[m.model].fields[i].relation].type # R

\* with Post excluded by option, a read of User that includes posts and
\* sessions was stored under user:list alone, and a mutation of User has
\* invalidated the list tags of User and Article only
C32_Witness ==
    /\ cfg = Option({"Post"}, NoGenerator)
    /\ client = Client("User", IncludeAll)
    /\ m.pc = "done"
    /\ m.model = "User"
    /\ m.issued = << "user:list", "user:1", "user:list", "article:list" >>
    /\ \E e \in m.pre : e.tags = << "user:list" >>

\* C33: afterEntityMutation invokes the row loader exactly once per
\* invocation, and only after the invalidation of lower(M):list has
\* completed; rows that carry no id, and a loader result that is absent or
\* not a sequence, cause no entity-tag invalidation.
C33_LoaderOnceAfterListTag ==
    m.pc # "idle" =>
        /\ m.loads <= 1
        /\ m.pc = "done" => m.loads = 1
        /\ (m.phase = "list" /\ m.pc \in {"updateTag", "revalidateTag"}) =>
               m.loads = 0
        /\ (m.pc = "loadEntities" \/ m.loads = 1) =>
               /\ m.issued[1] = ListTag(m.model)
               /\ m.phase # "list" \/ m.upd \in {"ok", "throws", "unavailable"}
        /\ m.pc = "loadEntities" => m.loads = 0 /\ m.issued = << ListTag(m.model) >>
        /\ m.loader \in LoadersWithoutId =>
               /\ m.phase # "entities"
               /\ \A i \in 1..Len(m.issued) :
                      m.issued[i] \in {ListTag(x) : x \in Models}

\* a mutation of Post whose loader returned rows without an id has ended:
\* one loader call, the list tags of Post and of its related models
C33_Witness ==
    /\ m.pc = "done"
    /\ m.model = "Post"
    /\ m.loader = LoaderReturns(Arr(<< Null, Str("1"),
                                       Obj(<< <<"name", Str("x")>> >>),
                                       Arr(<< Str("1") >>) >>))
    /\ m.loads = 1
    /\ m.issued = << "post:list", "user:list", "user:list", "category:list" >>

\* C34: if the row loader fails, afterEntityMutation swallows the failure:
\* lower(M):list has already been invalidated, no entity tag is invalidated,
\* and the list tags of all non-excluded related models are still
\* invalidated afterwards.
C34_LoaderFailureSwallowed ==
    (m.pc # "idle" /\ m.loader.throws) =>
        LET expected == << ListTag(m.model) >> \o RelatedListTags(cfg, m.model)
        IN /\ ~m.failed
           /\ m.phase # "entities"
           /\ IsPrefix(m.issued, expected)
           /\ m.loads = 1 =>
                  /\ m.issued[1] = ListTag(m.model)
                  /\ m.phase = "related"
           /\ (m.loads = 1 /\ m.allOk) =>
                  \A e \in m.pre :
                      ListTag(m.model) \in Range(e.tags) => e \notin store
           /\ m.pc = "done" =>
                  /\ m.loads = 1
                  /\ m.issued = expected
                  /\ m.allOk =>
                         \A e \in m.pre :
                             Range(e.tags) \cap Range(expected) # {} => e \notin store

\* a mutation of Post whose loader threw has ended normally: the entry of
\* an earlier read of Post is gone and the related list tags were issued
C34_Witness ==
    /\ cfg = Option({}, NoGenerator)
    /\ client = Client("Post", Undef)
    /\ m.pc = "done"
    /\ m.model = "Post"
    /\ m.loader = LoaderThrows
    /\ m.loads = 1
    /\ ~m.failed
    /\ m.issued = << "post:list", "user:list", "user:list", "category:list" >>
    /\ \E e \in m.pre : e.tags = << "post:list" >>
    /\ store = {}

\* C35: on a cache miss the value is stored in the cache store before
\* onQuery returns it to the caller: in no reachable state has the caller
\* the result of a successful miss while the store is not populated for
\* that key, and onQuery leaves no background work behind: once it holds
\* its result, and after it has returned, it changes the store no more.
C35_StoredBeforeReturned ==
    [][/\ (q'.pc = "return" /\ q'.path = "miss") =>
              /\ HasEntry(store', q'.key)
              /\ EntryOf(store', q'.key).value = q'.cached
              /\ q'.outcome = Returned(restoreDates(EntryOf(store', q'.key).value,
                                                    q'.model, cfg.prismaDecimal))
       /\ q.pc \in {"idle", "restore", "return"} => store' = store]_vars

\* the caller holds the result of a miss and the store holds its value
C35_Witness ==
    /\ q.pc = "return"
    /\ q.path = "miss"
    /\ q.outcome.kind = "value"
    /\ q.outcome.value # Null
    /\ HasEntry(store, q.key)
    /\ EntryOf(store, q.key).value = q.cached

RECURSIVE Depth(_)
\* the nesting depth of a payload: the values on its longest path
Depth(v) ==
    CASE v.k = "array" /\ v.items # << >> ->
            1 + (CHOOSE d \in {Depth(v.items[i]) : i \in 1..Len(v.items)} :
                    \A i \in 1..Len(v.items) : Depth(v.items[i]) <= d)
      [] v.k = "object" /\ v.ent # << >> ->
            1 + (CHOOSE d \in {Depth(v.ent[i][2]) : i \in 1..Len(v.ent)} :
                    \A i \in 1..Len(v.ent) : Depth(v.ent[i][2]) <= d)
      [] OTHER -> 1

\* C36: transformDates and restoreDates terminate on every finite acyclic
\* payload, also when the schema's relation graph is cyclic (User refers to
\* User, and User and Post to each other): every read of a payload reaches
\* its result, and the recursion of the codec is never deeper than the
\* payload is nested (of the payloads, when the fallback read a second one).
C36_CodecDepthOfPayload ==
    /\ q.depth <= Largest({Depth(q.results[i].value) : i \in 1..Len(q.results)}
                          \cup {Depth(e.source) : e \in store})
    /\ q.pc \in {"set", "return"} /\ q.calls <= 1 /\ q.depth > 0 =>
           q.depth <= Depth(SourceOf(q, store))
    /\ (q.pc = "return" /\ q.path \in {"hit", "miss", "fallback"}
            /\ q.results # << >> /\ q.results[Len(q.results)].kind = "value") =>
           /\ q.outcome.kind = "value"
           /\ q.depth >= 1

\* the fallback returned the row that follows the cycles of the schema; the
\* codec went eight calls deep, as deep as the row is nested
C36_Witness ==
    /\ q.model = "Category"
    /\ q.pc = "return"
    /\ q.path = "fallback"
    /\ q.outcome = Returned(CycleRow)
    /\ q.depth = 8
    /\ Depth(CycleRow) = 8
    /\ "User" \in Range(getRelatedModels("User"))

\* C37: within one afterEntityMutation invocation each distinct tag is
\* invalidated at most once, also when M has several relation fields to the
\* same model, a self-relation, or several loaded rows with the same id.
C37_EachTagOnce ==
    \A i, j \in 1..Len(m.issued) :
        (i # j /\ m.issued[i] = m.issued[j]) =>
            \/ m.allOk = FALSE
            \/ m.pc \in {"updateTag", "revalidateTag"} /\ Len(m.issued) \in {i, j}

====
